---- MODULE Spec2Model ----
(***************************************************************************)
(* A model of the Bagarre fighting-game engine: the per-player input ring  *)
(* buffer (input.rs), the state machine (state.rs), the entity update and  *)
(* hit application (entity.rs), the collision system (hitbox.rs) and the   *)
(* six-phase tick of the engine (engine.rs).                               *)
(***************************************************************************)
EXTENDS Integers, Sequences, FiniteSets, TLC

VARIABLES
    frame,            \* Engine.frame (Frame.0)
    entities,         \* Engine.entities: slot index -> Entity, for the slots < entity_count
    entity_count,     \* Engine.entity_count
    collision_system, \* Engine.collision_system
    input_manager,    \* Engine.input_manager.player_inputs: player index -> InputBuffer
    game_result,      \* Engine.game_result
    plan,             \* environment: the input script each player follows
    inits,            \* history: number of init_match calls so far
    last_op,          \* history: the last operation called on the engine
    prev_frame,       \* history: Engine.frame before the last operation
    ticks,            \* history: number of tick calls since the last init_match (or new)
    pushed,           \* history: per player, the two snapshots pushed last (<<before, last>>)
    hit_log,          \* history: the hits applied by the last tick, in order
    ubuf,             \* a stand-alone InputBuffer (unit level)
    uhist,            \* history: every snapshot pushed to ubuf, in order
    uent,             \* a stand-alone Entity reading ubuf (unit level)
    umode,            \* environment: what the owner of ubuf plays with (stick or buttons)
    strikes,          \* history: number of hits applied directly (unit level)
    usm,              \* a stand-alone StateMachine (unit level)
    utarget,          \* history: the id given to the last transition call on usm
    usince,           \* history: advance_frame calls on usm since that transition call
    ucs,              \* a stand-alone CollisionSystem (unit level)
    uphys,            \* a stand-alone Physics (unit level)
    ulog,             \* history: the last operation called on a stand-alone component
    ucnt              \* history: operation name -> number of calls on stand-alone components

engineVars == <<frame, entities, entity_count, collision_system, input_manager, game_result>>
histVars == <<plan, inits, last_op, prev_frame, ticks, pushed, hit_log>>
unitVars == <<ubuf, uhist, uent, umode, strikes>>
partVars == <<usm, utarget, usince, ucs, uphys, ulog, ucnt>>
vars == <<engineVars, histVars, unitVars, partVars>>

----------------------------------------------------------------------------
(* constants.rs *)

GRAVITY == 80
MOMENTUM_DECAY_PERCENT == 90
MOMENTUM_DECAY_DIVISOR == 100
KNOCKBACK_THRESHOLD == -100
INPUT_BUFFER_SIZE == 30
MOTION_DETECTION_WINDOW == 15
MAX_STATES == 32
MAX_FRAME_DATA_PER_STATE == 32
MAX_ACTIONS_PER_FRAME == 8
MAX_HITBOXES == 32
MAX_HURTBOXES == 32
MAX_COLLISIONS_PER_FRAME == 16
MAX_ENTITIES == 4
MAX_PLAYERS == 2

(* Bounds of the exploration *)

MaxFrame == 550
MaxPreFrame == 1
MaxRematchFrame == 2
MaxInits == 2
EngageDist == 25000
CloseDist == 12000

----------------------------------------------------------------------------
(* Integer helpers: Rust's i32 `/` truncates toward zero, `\div` floors. *)

\* i32::MAX
I32_MAX == 2147483647

TruncDiv(a, b) == IF a >= 0 THEN a \div b ELSE -((-a) \div b)

Max(a, b) == IF a >= b THEN a ELSE b

Min(a, b) == IF a <= b THEN a ELSE b

Abs(a) == IF a >= 0 THEN a ELSE -a

----------------------------------------------------------------------------
(* types.rs *)

Vec2(x, y) == [x |-> x, y |-> y]

Vec2Zero == Vec2(0, 0)

Vec2Add(a, b) == Vec2(a.x + b.x, a.y + b.y)

Rect(x, y, width, height) == [x |-> x, y |-> y, width |-> width, height |-> height]

Left(r) == r.x

Right(r) == r.x + r.width

Top(r) == r.y

Bottom(r) == r.y + r.height

\* Variant: rectangles that share an edge count as intersecting.
IntersectsClosed(a, b) ==
    /\ Left(a) <= Right(b)
    /\ Right(a) >= Left(b)
    /\ Top(a) <= Bottom(b)
    /\ Bottom(a) >= Top(b)

Intersects(a, b) ==
    /\ Left(a) < Right(b)
    /\ Right(a) > Left(b)
    /\ Top(a) < Bottom(b)
    /\ Bottom(a) > Top(b)

Sign(facing) == IF facing = "Left" THEN -1 ELSE 1

PLAYER_1 == 0

PLAYER_2 == 1

----------------------------------------------------------------------------
(* input.rs *)

Buttons == {"Light", "Medium", "Heavy", "Special"}

Directions == {"Neutral", "Down", "DownBack", "Back", "UpBack", "Up",
               "UpForward", "Forward", "DownForward"}

IsUp(d) == d \in {"Up", "UpBack", "UpForward"}

\* Variant: UpBack not counted as a backward direction.
IsBackGrounded(d) == d \in {"Back", "DownBack"}

IsBack(d) == d \in {"Back", "DownBack", "UpBack"}

IsForward(d) == d \in {"Forward", "DownForward", "UpForward"}

InputState(d, l, m, h, s) ==
    [direction |-> d, light |-> l, medium |-> m, heavy |-> h, special |-> s]

NeutralInput == InputState("Neutral", FALSE, FALSE, FALSE, FALSE)

ButtonPressed(input, button) ==
    CASE button = "Light" -> input.light
      [] button = "Medium" -> input.medium
      [] button = "Heavy" -> input.heavy
      [] button = "Special" -> input.special

InputBufferNew(facing) ==
    [buffer |-> [i \in 0..(INPUT_BUFFER_SIZE - 1) |-> NeutralInput],
     write_index |-> 0,
     facing |-> facing]

Push(b, input) ==
    [b EXCEPT !.buffer[b.write_index] = input,
              !.write_index = (b.write_index + 1) % INPUT_BUFFER_SIZE]

Current(b) ==
    LET prev_index == IF b.write_index = 0
                      THEN INPUT_BUFFER_SIZE - 1
                      ELSE b.write_index - 1
    IN b.buffer[prev_index]

\* Variant: a held button counts as pressed anew on every frame.
ButtonJustPressedHeld(b, button) == ButtonPressed(Current(b), button)

\* Variant: the previous snapshot looked up one slot too far back after a wrap.
ButtonJustPressedFarWrap(b, button) ==
    LET prev_index == IF b.write_index < 2
                      THEN INPUT_BUFFER_SIZE - 3 + b.write_index
                      ELSE b.write_index - 2
    IN ButtonPressed(Current(b), button) /\ ~ButtonPressed(b.buffer[prev_index], button)

ButtonJustPressed(b, button) ==
    LET prev_index == IF b.write_index < 2
                      THEN INPUT_BUFFER_SIZE - 2 + b.write_index
                      ELSE b.write_index - 2
    IN ButtonPressed(Current(b), button) /\ ~ButtonPressed(b.buffer[prev_index], button)

\* Variant: a sequence matched on every other slot, one frame apart.
DetectSequenceStride2(b, sequence) ==
    IF Len(sequence) = 0 THEN FALSE
    ELSE \E start_back \in 0..(MOTION_DETECTION_WINDOW - 1) :
           \A seq_offset \in 0..(Len(sequence) - 1) :
              LET back == start_back + 2 * seq_offset + 1
                  buffer_idx ==
                    IF b.write_index >= back
                    THEN b.write_index - back
                    ELSE INPUT_BUFFER_SIZE + b.write_index - back
              IN b.buffer[buffer_idx].direction = sequence[Len(sequence) - seq_offset]

\* Variant: every slot of the buffer is an alignment of the window.
DetectSequenceWholeBuffer(b, sequence) ==
    IF Len(sequence) = 0 THEN FALSE
    ELSE \E start_back \in 0..(INPUT_BUFFER_SIZE - Len(sequence)) :
           \A seq_offset \in 0..(Len(sequence) - 1) :
              LET buffer_idx ==
                    IF b.write_index >= start_back + seq_offset + 1
                    THEN b.write_index - start_back - seq_offset - 1
                    ELSE INPUT_BUFFER_SIZE + b.write_index - start_back - seq_offset - 1
              IN b.buffer[buffer_idx].direction = sequence[Len(sequence) - seq_offset]

DetectSequence(b, sequence) ==
    IF Len(sequence) = 0 THEN FALSE
    ELSE \E start_back \in 0..(MOTION_DETECTION_WINDOW - 1) :
           \A seq_offset \in 0..(Len(sequence) - 1) :
              LET buffer_idx ==
                    IF b.write_index >= start_back + seq_offset + 1
                    THEN b.write_index - start_back - seq_offset - 1
                    ELSE INPUT_BUFFER_SIZE + b.write_index - start_back - seq_offset - 1
              IN b.buffer[buffer_idx].direction = sequence[Len(sequence) - seq_offset]

DetectQcf(b) == DetectSequence(b, <<"Down", "DownForward", "Forward">>)

InputManagerNew == [p \in 0..(MAX_PLAYERS - 1) |->
                      InputBufferNew(IF p = 0 THEN "Right" ELSE "Left")]

UpdatePlayerInput(im, player, input) ==
    IF player < MAX_PLAYERS THEN [im EXCEPT ![player] = Push(im[player], input)] ELSE im

----------------------------------------------------------------------------
(* hitbox.rs: attack data *)

AttackDataNew(damage) ==
    [damage |-> damage, hitstun |-> 12, blockstun |-> 8, pushback_x |-> 500,
     pushback_y |-> 0, can_block |-> TRUE, is_overhead |-> FALSE, is_low |-> FALSE]

WithKnockback(a, x, y) == [a EXCEPT !.pushback_x = x, !.pushback_y = y]

WithStun(a, hitstun, blockstun) == [a EXCEPT !.hitstun = hitstun, !.blockstun = blockstun]

Unblockable(a) == [a EXCEPT !.can_block = FALSE]

----------------------------------------------------------------------------
(* state.rs *)

HitboxAction(x, y, width, height, attack) ==
    [type |-> "Hitbox", x |-> x, y |-> y, width |-> width, height |-> height,
     attack |-> attack]

SetVelocityAction(x, y) == [type |-> "SetVelocity", x |-> x, y |-> y]

AddMomentumAction(x, y) == [type |-> "AddMomentum", x |-> x, y |-> y]

TransitionAction(target) == [type |-> "Transition", target |-> target]

FrameData(f, action) == [frame |-> f, action |-> action]

StateNew(id, state_type, duration) ==
    [id |-> id, state_type |-> state_type, duration |-> duration,
     can_cancel |-> FALSE, frame_data |-> <<>>]

WithCancel(s) == [s EXCEPT !.can_cancel = TRUE]

AddFrameData(s, data) ==
    IF Len(s.frame_data) < MAX_FRAME_DATA_PER_STATE
    THEN [s EXCEPT !.frame_data = Append(@, data)]
    ELSE s

\* Variant: an action stays in force from its frame to the end of the state.
GetActionsFrom(s, f) ==
    LET hits == SelectSeq(s.frame_data, LAMBDA d : d.frame <= f)
    IN [i \in 1..Min(Len(hits), MAX_ACTIONS_PER_FRAME) |-> hits[i].action]

\* The first MAX_ACTIONS_PER_FRAME actions recorded for `f`, in registration order.
GetActions(s, f) ==
    LET hits == SelectSeq(s.frame_data, LAMBDA d : d.frame = f)
    IN [i \in 1..Min(Len(hits), MAX_ACTIONS_PER_FRAME) |-> hits[i].action]

StateMachineNew == [current_state |-> "Idle", state_frame |-> 0, states |-> <<>>]

RegisterState(sm, s) ==
    IF Len(sm.states) < MAX_STATES THEN [sm EXCEPT !.states = Append(@, s)] ELSE sm

\* Variant: every transition call restarts the state.
TransitionRestart(sm, new_state) == [sm EXCEPT !.current_state = new_state, !.state_frame = 0]

Transition(sm, new_state) ==
    IF new_state # sm.current_state
    THEN [sm EXCEPT !.current_state = new_state, !.state_frame = 0]
    ELSE sm

\* Variant: an id that is not registered is looked up as the first registered state.
FindStateOrFirst(sm, id) ==
    LET found == {i \in 1..Len(sm.states) : sm.states[i].id = id}
    IN IF found = {} THEN Min(1, Len(sm.states)) ELSE CHOOSE i \in found : \A j \in found : i <= j

\* Index of the first registered state with this id, 0 when there is none (None).
FindState(sm, id) ==
    LET found == {i \in 1..Len(sm.states) : sm.states[i].id = id}
    IN IF found = {} THEN 0 ELSE CHOOSE i \in found : \A j \in found : i <= j

CanCancel(sm) ==
    LET i == FindState(sm, sm.current_state)
    IN IF i = 0 THEN FALSE ELSE sm.states[i].can_cancel

\* Variant: a state that lasts one frame longer than its duration.
AdvanceFrameLate(sm) ==
    LET sm1 == [sm EXCEPT !.state_frame = @ + 1]
        i == FindState(sm1, sm1.current_state)
    IN IF i # 0 /\ sm1.state_frame > sm1.states[i].duration
       THEN Transition(sm1, "Idle")
       ELSE sm1

AdvanceFrame(sm) ==
    LET sm1 == [sm EXCEPT !.state_frame = @ + 1]
        i == FindState(sm1, sm1.current_state)
    IN IF i # 0 /\ sm1.state_frame >= sm1.states[i].duration
       THEN Transition(sm1, "Idle")
       ELSE sm1

GetCurrentActions(sm) ==
    LET i == FindState(sm, sm.current_state)
    IN IF i # 0 THEN GetActions(sm.states[i], sm.state_frame) ELSE <<>>

(* state.rs: mod states *)

StateIdle == StateNew("Idle", "Normal", 1)

StateWalk ==
    AddFrameData(StateNew("Walk", "Normal", 1), FrameData(0, SetVelocityAction(300, 0)))

StateLightAttack ==
    AddFrameData(WithCancel(StateNew("LightAttack", "Attack", 18)),
                 FrameData(5, HitboxAction(15000, 10000, 12000, 8000,
                     WithKnockback(WithStun(AttackDataNew(50), 8, 6), 400, 0))))

StateMediumAttack ==
    AddFrameData(WithCancel(StateNew("MediumAttack", "Attack", 24)),
                 FrameData(8, HitboxAction(18000, 10000, 15000, 10000,
                     WithKnockback(WithStun(AttackDataNew(100), 12, 8), 800, 0))))

StateHeavyAttack ==
    AddFrameData(StateNew("HeavyAttack", "Attack", 36),
                 FrameData(12, HitboxAction(20000, 10000, 18000, 12000,
                     WithKnockback(WithStun(AttackDataNew(200), 18, 12), 1500, -500))))

StateHitstun(duration) == StateNew("Hitstun", "Hurt", duration)

StateBlockstun(duration) == StateNew("Blockstun", "Hurt", duration)

\* states::walk_back and states::jump are called by entity.rs but their bodies are
\* not in state.rs; they are modelled as the walk state mirrored and as a state
\* that sets an upward velocity on its first frame.
StateWalkBack ==
    AddFrameData(StateNew("WalkBack", "Normal", 1), FrameData(0, SetVelocityAction(-300, 0)))

StateJump ==
    AddFrameData(StateNew("Jump", "Normal", 40), FrameData(0, SetVelocityAction(0, -1000)))


----------------------------------------------------------------------------
(* entity.rs *)

HealthNew(max) == [current |-> max, maximum |-> max]

\* Variant: the damage is added to the health.
TakeDamageAdded(h, damage) == [h EXCEPT !.current = h.current + damage]

\* Variant: the subtraction of take_damage without its floor at 0.
TakeDamageUnclamped(h, damage) == [h EXCEPT !.current = h.current - damage]

TakeDamage(h, damage) == [h EXCEPT !.current = Max(h.current - damage, 0)]

IsAlive(h) == h.current > 0

PhysicsNew(position) ==
    [position |-> position, velocity |-> Vec2Zero, momentum |-> Vec2Zero,
     gravity |-> GRAVITY, on_ground |-> TRUE]

\* The i32 product a * b where it fits, and two's-complement wrap-around where it
\* does not (a build without overflow checks); computed on 16-bit halves, 0 < b < 2^15.
WrappingMul(a, b) ==
    LET lo == (a % 65536) * b
        hi == ((a \div 65536) * b + (lo \div 65536)) % 65536
    IN (IF hi >= 32768 THEN hi - 65536 ELSE hi) * 65536 + (lo % 65536)

\* The i32 product a * b does not fit (a build with overflow checks panics), b > 0.
MulOverflows(a, b) == Abs(a) > I32_MAX \div b

\* Variant: a decay that never takes the last unit away.
DecayMomentumCeil(m) == 
    IF m = 0 THEN 0
    ELSE TruncDiv(WrappingMul(m - (IF m > 0 THEN 1 ELSE -1), MOMENTUM_DECAY_PERCENT),
                  MOMENTUM_DECAY_DIVISOR) + (IF m > 0 THEN 1 ELSE -1)

DecayMomentum(m) ==
    TruncDiv(WrappingMul(m, MOMENTUM_DECAY_PERCENT), MOMENTUM_DECAY_DIVISOR)

\* Physics::update stops at an overflowing multiplication in a build with overflow checks.
UpdateOverflows(ph) ==
    \/ MulOverflows(ph.momentum.x, MOMENTUM_DECAY_PERCENT)
    \/ MulOverflows(ph.momentum.y, MOMENTUM_DECAY_PERCENT)

PhysicsUpdate(ph) ==
    LET p1 == [ph EXCEPT !.position = Vec2Add(@, ph.momentum)]
        p2 == [p1 EXCEPT !.momentum = Vec2(DecayMomentum(@.x), DecayMomentum(@.y))]
        p3 == [p2 EXCEPT !.position = Vec2Add(@, p2.velocity)]
        p4 == IF ~p3.on_ground THEN [p3 EXCEPT !.velocity.y = @ + p3.gravity] ELSE p3
        p5 == IF p4.position.y >= 0
              THEN [p4 EXCEPT !.position.y = 0, !.velocity.y = 0, !.momentum.y = 0,
                              !.on_ground = TRUE]
              ELSE [p4 EXCEPT !.on_ground = FALSE]
    IN [p5 EXCEPT !.velocity = Vec2Zero]

\* Variant: a knockback that only pushes horizontally.
ApplyKnockbackFlat(ph, x, y) ==
    [ph EXCEPT !.momentum = Vec2(ph.momentum.x + x, ph.momentum.y),
               !.on_ground = IF y < KNOCKBACK_THRESHOLD THEN FALSE ELSE @]

ApplyKnockback(ph, x, y) ==
    [ph EXCEPT !.momentum = Vec2(ph.momentum.x + x, ph.momentum.y + y),
               !.on_ground = IF y < KNOCKBACK_THRESHOLD THEN FALSE ELSE @]

RegisterDefaultStates(sm) ==
    LET s1 == RegisterState(sm, StateIdle)
        s2 == RegisterState(s1, StateWalk)
        s3 == RegisterState(s2, StateWalkBack)
        s4 == RegisterState(s3, StateJump)
        s5 == RegisterState(s4, StateLightAttack)
        s6 == RegisterState(s5, StateMediumAttack)
        s7 == RegisterState(s6, StateHeavyAttack)
        s8 == RegisterState(s7, StateHitstun(20))
    IN RegisterState(s8, StateBlockstun(15))

EntityNew(id, player_id, position) ==
    [id |-> id,
     player_id |-> player_id,
     facing |-> IF player_id = PLAYER_1 THEN "Right" ELSE "Left",
     health |-> HealthNew(1000),
     physics |-> PhysicsNew(position),
     state_machine |-> RegisterDefaultStates(StateMachineNew),
     hitstun_remaining |-> 0,
     blockstun_remaining |-> 0]

\* Variant: every state may be left for an attack.
CanActAnyState(e) ==
    /\ e.hitstun_remaining = 0
    /\ e.blockstun_remaining = 0

CanAct(e) ==
    /\ e.hitstun_remaining = 0
    /\ e.blockstun_remaining = 0
    /\ (e.state_machine.current_state = "Idle" \/ CanCancel(e.state_machine))

GoTo(e, id) == [e EXCEPT !.state_machine = Transition(@, id)]

\* The movement half of process_input (entity.rs 212-243).
ProcessMovement(e, current) ==
    LET st == e.state_machine.current_state
    IN IF IsUp(current.direction) /\ e.physics.on_ground /\ st \in {"Idle", "Walk"}
       THEN GoTo(e, "Jump")
       ELSE IF IsForward(current.direction)
       THEN (IF st = "Idle" THEN GoTo(e, "Walk") ELSE e)
       ELSE IF IsBack(current.direction)
       THEN (IF st = "Idle" THEN GoTo(e, "WalkBack") ELSE e)
       ELSE IF st \in {"Walk", "WalkBack"} THEN GoTo(e, "Idle") ELSE e

\* Variant: the heavy button is looked at before the light and the medium one.
ProcessInputHeavyFirst(e, input) ==
    IF input = <<>> THEN e
    ELSE LET b == input[1]
             current == Current(b)
         IN IF CanAct(e) /\ ButtonJustPressed(b, "Heavy") THEN GoTo(e, "HeavyAttack")
            ELSE IF CanAct(e) /\ ButtonJustPressed(b, "Light") THEN GoTo(e, "LightAttack")
            ELSE IF CanAct(e) /\ ButtonJustPressed(b, "Medium") THEN GoTo(e, "MediumAttack")
            ELSE IF CanAct(e) /\ DetectQcf(b) /\ ButtonJustPressed(b, "Special")
            THEN GoTo(e, "SpecialMove")
            ELSE ProcessMovement(e, current)

\* `input` is Option<&InputBuffer>: <<>> for None, <<b>> for Some(b).
ProcessInput(e, input) ==
    IF input = <<>> THEN e
    ELSE LET b == input[1]
             current == Current(b)
         IN IF CanAct(e) /\ ButtonJustPressed(b, "Light") THEN GoTo(e, "LightAttack")
            ELSE IF CanAct(e) /\ ButtonJustPressed(b, "Medium") THEN GoTo(e, "MediumAttack")
            ELSE IF CanAct(e) /\ ButtonJustPressed(b, "Heavy") THEN GoTo(e, "HeavyAttack")
            ELSE IF CanAct(e) /\ DetectQcf(b) /\ ButtonJustPressed(b, "Special")
            THEN GoTo(e, "SpecialMove")
            ELSE ProcessMovement(e, current)

\* Variant: SetVelocity taken as given, whatever the facing.
ApplyActionUnfaced(e, action) ==
    CASE action.type = "SetVelocity" ->
           [e EXCEPT !.physics.velocity = Vec2(action.x, action.y)]
      [] action.type = "AddMomentum" ->
           [e EXCEPT !.physics.momentum =
                Vec2(@.x + action.x * Sign(e.facing), @.y + action.y)]
      [] action.type = "Transition" -> GoTo(e, action.target)
      [] OTHER -> e

ApplyAction(e, action) ==
    CASE action.type = "SetVelocity" ->
           [e EXCEPT !.physics.velocity = Vec2(action.x * Sign(e.facing), action.y)]
      [] action.type = "AddMomentum" ->
           [e EXCEPT !.physics.momentum =
                Vec2(@.x + action.x * Sign(e.facing), @.y + action.y)]
      [] action.type = "Transition" -> GoTo(e, action.target)
      [] OTHER -> e

RECURSIVE ApplyActions(_, _, _)
ApplyActions(e, actions, i) ==
    IF i > Len(actions) THEN e
    ELSE ApplyActions(ApplyAction(e, actions[i]), actions, i + 1)

\* The action list is fetched once, before any of the actions runs.
ExecuteStateActions(e) == ApplyActions(e, GetCurrentActions(e.state_machine), 1)

StunTick(e) ==
    LET h == IF e.hitstun_remaining > 0
             THEN LET e1 == [e EXCEPT !.hitstun_remaining = @ - 1]
                  IN IF e1.hitstun_remaining = 0 THEN GoTo(e1, "Idle") ELSE e1
             ELSE e
    IN IF h.blockstun_remaining > 0
       THEN LET h1 == [h EXCEPT !.blockstun_remaining = @ - 1]
            IN IF h1.blockstun_remaining = 0 THEN GoTo(h1, "Idle") ELSE h1
       ELSE h

\* Variant: the input is processed in every update, stunned or not.
EntityUpdateUngated(e, input) ==
    LET e1 == StunTick(e)
        e2 == ProcessInput(e1, input)
        e3 == ExecuteStateActions(e2)
        e4 == [e3 EXCEPT !.state_machine = AdvanceFrame(@)]
    IN [e4 EXCEPT !.physics = PhysicsUpdate(@)]

EntityUpdate(e, input) ==
    LET e1 == StunTick(e)
        e2 == IF e1.hitstun_remaining = 0 /\ e1.blockstun_remaining = 0
              THEN ProcessInput(e1, input)
              ELSE e1
        e3 == ExecuteStateActions(e2)
        e4 == [e3 EXCEPT !.state_machine = AdvanceFrame(@)]
    IN [e4 EXCEPT !.physics = PhysicsUpdate(@)]

NoAttack == <<>>

CollisionBoxHitbox(owner, bounds, attack_data) ==
    [box_type |-> "Hitbox", bounds |-> bounds, owner |-> owner, active |-> TRUE,
     attack_data |-> <<attack_data>>]

CollisionBoxHurtbox(owner, bounds) ==
    [box_type |-> "Hurtbox", bounds |-> bounds, owner |-> owner, active |-> TRUE,
     attack_data |-> NoAttack]

Translate(box, offset) ==
    [box EXCEPT !.bounds.x = @ + offset.x, !.bounds.y = @ + offset.y]

\* Up to 4 hitboxes, from the Hitbox actions of the current state frame.
GetHitboxes(e) ==
    LET acts == SelectSeq(GetCurrentActions(e.state_machine), LAMBDA a : a.type = "Hitbox")
        BoxOf(a) ==
            LET b0 == Rect(a.x, a.y, a.width, a.height)
                b1 == IF e.facing = "Left" THEN [b0 EXCEPT !.x = -b0.x - b0.width] ELSE b0
            IN Translate(CollisionBoxHitbox(e.id, b1, a.attack), e.physics.position)
    IN [i \in 1..Min(Len(acts), 4) |-> BoxOf(acts[i])]

GetHurtboxes(e) ==
    <<Translate(CollisionBoxHurtbox(e.id, Rect(0, 0, 10000, 25000)), e.physics.position)>>

\* Variant: a blocked hit takes a quarter of the damage.
TakeHitChip(e, collision, is_blocking) ==
    LET attack == collision.attack_data
    IN IF is_blocking /\ attack.can_block
       THEN LET e1 == [e EXCEPT !.blockstun_remaining = attack.blockstun,
                               !.health = TakeDamage(@, TruncDiv(attack.damage, 4))]
                e2 == GoTo(e1, "Blockstun")
            IN [e2 EXCEPT !.physics =
                    ApplyKnockback(@, TruncDiv(attack.pushback_x, 2) * (-Sign(e.facing)), 0)]
       ELSE LET e1 == [e EXCEPT !.health = TakeDamage(@, attack.damage),
                               !.hitstun_remaining = attack.hitstun]
                e2 == GoTo(e1, "Hitstun")
            IN [e2 EXCEPT !.physics =
                    ApplyKnockback(@, attack.pushback_x * (-Sign(e.facing)), attack.pushback_y)]

\* `collision` is a CollisionResult [attacker, defender, attack_data].
TakeHit(e, collision, is_blocking) ==
    LET attack == collision.attack_data
    IN IF is_blocking /\ attack.can_block
       THEN LET e1 == [e EXCEPT !.blockstun_remaining = attack.blockstun]
                e2 == GoTo(e1, "Blockstun")
            IN [e2 EXCEPT !.physics =
                    ApplyKnockback(@, TruncDiv(attack.pushback_x, 2) * (-Sign(e.facing)), 0)]
       ELSE LET e1 == [e EXCEPT !.health = TakeDamage(@, attack.damage),
                               !.hitstun_remaining = attack.hitstun]
                e2 == GoTo(e1, "Hitstun")
            IN [e2 EXCEPT !.physics =
                    ApplyKnockback(@, attack.pushback_x * (-Sign(e.facing)), attack.pushback_y)]

\* Variant: an entity at the opponent's x turns to the right.
EntityUpdateFacingTie(e, opponent_pos) ==
    IF opponent_pos.x >= e.physics.position.x THEN [e EXCEPT !.facing = "Right"]
    ELSE [e EXCEPT !.facing = "Left"]

EntityUpdateFacing(e, opponent_pos) ==
    IF opponent_pos.x > e.physics.position.x THEN [e EXCEPT !.facing = "Right"]
    ELSE IF opponent_pos.x < e.physics.position.x THEN [e EXCEPT !.facing = "Left"]
    ELSE e


----------------------------------------------------------------------------
(* hitbox.rs: collision system *)

CollisionSystemNew == [hitboxes |-> <<>>, hurtboxes |-> <<>>]

Clear(cs) == CollisionSystemNew

AddHitbox(cs, hitbox) ==
    IF Len(cs.hitboxes) < MAX_HITBOXES THEN [cs EXCEPT !.hitboxes = Append(@, hitbox)] ELSE cs

AddHurtbox(cs, hurtbox) ==
    IF Len(cs.hurtboxes) < MAX_HURTBOXES THEN [cs EXCEPT !.hurtboxes = Append(@, hurtbox)] ELSE cs

RECURSIVE AddHitboxes(_, _, _)
AddHitboxes(cs, boxes, i) ==
    IF i > Len(boxes) THEN cs ELSE AddHitboxes(AddHitbox(cs, boxes[i]), boxes, i + 1)

RECURSIVE AddHurtboxes(_, _, _)
AddHurtboxes(cs, boxes, i) ==
    IF i > Len(boxes) THEN cs ELSE AddHurtboxes(AddHurtbox(cs, boxes[i]), boxes, i + 1)

\* Variant: the owners of the two boxes are not compared.
PairCollidesAnyOwner(cs, i, j) ==
    LET hitbox == cs.hitboxes[i]
        hurtbox == cs.hurtboxes[j]
    IN /\ hitbox.active
       /\ hurtbox.active
       /\ Intersects(hitbox.bounds, hurtbox.bounds)
       /\ hitbox.attack_data # NoAttack

\* Variant: inactive boxes collide like active ones.
PairCollidesInactive(cs, i, j) ==
    LET hitbox == cs.hitboxes[i]
        hurtbox == cs.hurtboxes[j]
    IN /\ hitbox.owner # hurtbox.owner
       /\ Intersects(hitbox.bounds, hurtbox.bounds)
       /\ hitbox.attack_data # NoAttack

\* Whether the pair (hitbox i, hurtbox j) survives the filters of check_collisions.
PairCollides(cs, i, j) ==
    LET hitbox == cs.hitboxes[i]
        hurtbox == cs.hurtboxes[j]
    IN /\ hitbox.active
       /\ hurtbox.active
       /\ hitbox.owner # hurtbox.owner
       /\ Intersects(hitbox.bounds, hurtbox.bounds)
       /\ hitbox.attack_data # NoAttack

\* results: hitbox-major, hurtbox-minor, the first MAX_COLLISIONS_PER_FRAME kept.
\* Variant: once the results are full, a new result pushes the oldest one out.
CheckCollisionsNewest(cs) ==
    LET n == Len(cs.hitboxes)
        m == Len(cs.hurtboxes)
        all == [k \in 1..(n * m) |-> <<((k - 1) \div m) + 1, ((k - 1) % m) + 1>>]
        hit == SelectSeq(all, LAMBDA p : PairCollides(cs, p[1], p[2]))
        skip == Max(Len(hit) - MAX_COLLISIONS_PER_FRAME, 0)
    IN [k \in 1..(Len(hit) - skip) |->
          [attacker |-> cs.hitboxes[hit[k + skip][1]].owner,
           defender |-> cs.hurtboxes[hit[k + skip][2]].owner,
           attack_data |-> cs.hitboxes[hit[k + skip][1]].attack_data[1]]]

CheckCollisions(cs) ==
    LET n == Len(cs.hitboxes)
        m == Len(cs.hurtboxes)
        all == [k \in 1..(n * m) |-> <<((k - 1) \div m) + 1, ((k - 1) % m) + 1>>]
        hit == SelectSeq(all, LAMBDA p : PairCollides(cs, p[1], p[2]))
    IN [k \in 1..Min(Len(hit), MAX_COLLISIONS_PER_FRAME) |->
          [attacker |-> cs.hitboxes[hit[k][1]].owner,
           defender |-> cs.hurtboxes[hit[k][2]].owner,
           attack_data |-> cs.hitboxes[hit[k][1]].attack_data[1]]]


----------------------------------------------------------------------------
(* engine.rs *)

\* An Engine value; the variables frame .. game_result hold its fields.
EngineNew ==
    [frame |-> 0,
     entities |-> <<>>,
     entity_count |-> 0,
     collision_system |-> CollisionSystemNew,
     input_manager |-> InputManagerNew,
     game_result |-> "InProgress"]

\* Variant: init_match that reuses the roster it finds.
EngineInitMatchKeepRoster(eng) ==
    LET p1 == EntityNew(0, PLAYER_1, Vec2(-50000, 0))
        p2 == EntityNew(1, PLAYER_2, Vec2(50000, 0))
    IN [eng EXCEPT !.entities = IF eng.entity_count = 2 THEN @
                                ELSE [i \in 0..1 |-> IF i = 0 THEN p1 ELSE p2],
                   !.entity_count = 2,
                   !.frame = 0,
                   !.game_result = "InProgress"]

EngineInitMatch(eng) ==
    LET p1 == EntityNew(0, PLAYER_1, Vec2(-50000, 0))
        p2 == EntityNew(1, PLAYER_2, Vec2(50000, 0))
    IN [eng EXCEPT !.entities = [i \in 0..1 |-> IF i = 0 THEN p1 ELSE p2],
                   !.entity_count = 2,
                   !.frame = 0,
                   !.game_result = "InProgress"]

GetPlayerInput(im, player) == IF player < MAX_PLAYERS THEN <<im[player]>> ELSE <<>>

\* The roster indices in the order the loops `for i in 0..entity_count` visit them.
RosterOrder(eng) == [k \in 1..eng.entity_count |-> k - 1]

RECURSIVE UpdateEntitiesIn(_, _, _)
UpdateEntitiesIn(eng, order, k) ==
    IF k > Len(order) THEN eng
    ELSE LET i == order[k]
             input == GetPlayerInput(eng.input_manager, eng.entities[i].player_id)
         IN UpdateEntitiesIn([eng EXCEPT !.entities[i] = EntityUpdate(@, input)], order, k + 1)

UpdateEntities(eng) == UpdateEntitiesIn(eng, RosterOrder(eng), 1)

RECURSIVE GatherBoxes(_, _, _, _)
GatherBoxes(cs, eng, order, k) ==
    IF k > Len(order) THEN cs
    ELSE LET e == eng.entities[order[k]]
             cs1 == AddHitboxes(cs, GetHitboxes(e), 1)
             cs2 == AddHurtboxes(cs1, GetHurtboxes(e), 1)
         IN GatherBoxes(cs2, eng, order, k + 1)

DetectCollisions(eng) ==
    [eng EXCEPT !.collision_system =
        GatherBoxes(Clear(eng.collision_system), eng, RosterOrder(eng), 1)]

\* Index of the first roster entity with this id, -1 when there is none (None).
FindEntityIndex(eng, id) ==
    LET found == {i \in 0..(eng.entity_count - 1) : eng.entities[i].id = id}
    IN IF found = {} THEN -1 ELSE CHOOSE i \in found : \A j \in found : i <= j

\* Variant: only a defender that is not stunned blocks.
IsBlockingUnstunned(eng, defender_idx) ==
    LET input == GetPlayerInput(eng.input_manager, eng.entities[defender_idx].player_id)
    IN /\ eng.entities[defender_idx].hitstun_remaining = 0
       /\ eng.entities[defender_idx].blockstun_remaining = 0
       /\ IF input # <<>> THEN IsBack(Current(input[1]).direction) ELSE FALSE

IsBlocking(eng, defender_idx) ==
    LET input == GetPlayerInput(eng.input_manager, eng.entities[defender_idx].player_id)
    IN IF input # <<>> THEN IsBack(Current(input[1]).direction) ELSE FALSE

\* Variant: the hit of an attacker that was itself hit earlier in the tick is dropped.
ApplyHitUnlessStunned(eng, collision) ==
    LET defender_idx == FindEntityIndex(eng, collision.defender)
        attacker_idx == FindEntityIndex(eng, collision.attacker)
    IN IF defender_idx = -1 THEN eng
       ELSE IF attacker_idx # -1 /\ eng.entities[attacker_idx].hitstun_remaining > 0
       THEN eng
       ELSE [eng EXCEPT !.entities[defender_idx] =
                TakeHit(@, collision, IsBlocking(eng, defender_idx))]

ApplyHit(eng, collision) ==
    LET defender_idx == FindEntityIndex(eng, collision.defender)
    IN IF defender_idx = -1 THEN eng
       ELSE [eng EXCEPT !.entities[defender_idx] =
                TakeHit(@, collision, IsBlocking(eng, defender_idx))]

\* Variant: a defender takes only the first of the results that name it.
RECURSIVE ApplyHitsOncePerDefender(_, _, _)
ApplyHitsOncePerDefender(eng, collisions, k) ==
    IF k > Len(collisions) THEN eng
    ELSE IF \E j \in 1..(k - 1) : collisions[j].defender = collisions[k].defender
    THEN ApplyHitsOncePerDefender(eng, collisions, k + 1)
    ELSE ApplyHitsOncePerDefender(ApplyHit(eng, collisions[k]), collisions, k + 1)

RECURSIVE ApplyHits(_, _, _)
ApplyHits(eng, collisions, k) ==
    IF k > Len(collisions) THEN eng
    ELSE ApplyHits(ApplyHit(eng, collisions[k]), collisions, k + 1)

ResolveHits(eng) == ApplyHits(eng, CheckCollisions(eng.collision_system), 1)

\* Variant: a double KO credited to player 1.
CheckWinConditionsNoDraw(eng) ==
    IF eng.entity_count < 2 THEN eng
    ELSE LET p1_alive == IsAlive(eng.entities[0].health)
             p2_alive == IsAlive(eng.entities[1].health)
         IN [eng EXCEPT !.game_result =
                IF p1_alive /\ p2_alive THEN "InProgress"
                ELSE IF p2_alive THEN "Player2Wins"
                ELSE "Player1Wins"]

CheckWinConditions(eng) ==
    IF eng.entity_count < 2 THEN eng
    ELSE LET p1_alive == IsAlive(eng.entities[0].health)
             p2_alive == IsAlive(eng.entities[1].health)
         IN [eng EXCEPT !.game_result =
                IF p1_alive /\ p2_alive THEN "InProgress"
                ELSE IF p1_alive THEN "Player1Wins"
                ELSE IF p2_alive THEN "Player2Wins"
                ELSE "Draw"]

UpdateFacing(eng) ==
    IF eng.entity_count >= 2
    THEN LET p1_pos == eng.entities[0].physics.position
             p2_pos == eng.entities[1].physics.position
         IN [eng EXCEPT !.entities[0] = EntityUpdateFacing(@, p2_pos),
                        !.entities[1] = EntityUpdateFacing(@, p1_pos)]
    ELSE eng

\* Phases 1 and 2 of tick: both inputs pushed, every entity updated.
TickUpdated(eng, p1_input, p2_input) ==
    LET im1 == UpdatePlayerInput(eng.input_manager, 0, p1_input)
        im2 == UpdatePlayerInput(im1, 1, p2_input)
    IN UpdateEntities([eng EXCEPT !.input_manager = im2])

\* Phases 1 to 3: the update above, then the boxes of the frame gathered.
TickBoxes(eng, p1_input, p2_input) ==
    DetectCollisions(TickUpdated(eng, p1_input, p2_input))

\* Variant: phases 4 to 6 with the frame counter left alone on a tick with a hit.
TickFinishHitFreeze(eng) ==
    LET e4 == ResolveHits(eng)
        e5 == CheckWinConditions(e4)
        e6 == UpdateFacing(e5)
    IN IF CheckCollisions(eng.collision_system) # <<>> THEN e6
       ELSE [e6 EXCEPT !.frame = @ + 1]

\* Phases 4 to 6 and the frame counter.
TickFinish(eng) ==
    LET e4 == ResolveHits(eng)
        e5 == CheckWinConditions(e4)
        e6 == UpdateFacing(e5)
    IN [e6 EXCEPT !.frame = @ + 1]

\* Variant: a tick that runs whatever the result is.
TickRunsAlways(eng) == TRUE

\* The early return of tick: it runs only while the match is in progress.
\* Variant: the match goes on after a win, until a draw.
TickRunsUntilDraw(eng) == eng.game_result # "Draw"

TickRuns(eng) == eng.game_result = "InProgress"

EngineTick(eng, p1_input, p2_input) ==
    IF ~TickRuns(eng) THEN eng
    ELSE TickFinish(TickBoxes(eng, p1_input, p2_input))

----------------------------------------------------------------------------
(* The engine as the state of the system *)

Engine ==
    [frame |-> frame,
     entities |-> entities,
     entity_count |-> entity_count,
     collision_system |-> collision_system,
     input_manager |-> input_manager,
     game_result |-> game_result]

SetEngine(eng) ==
    /\ frame' = eng.frame
    /\ entities' = eng.entities
    /\ entity_count' = eng.entity_count
    /\ collision_system' = eng.collision_system
    /\ input_manager' = eng.input_manager
    /\ game_result' = eng.game_result

\* What a hit changes in its defender, recorded before and after each take_hit.
EntityView(e) ==
    [health |-> e.health.current,
     hitstun_remaining |-> e.hitstun_remaining,
     blockstun_remaining |-> e.blockstun_remaining,
     current_state |-> e.state_machine.current_state,
     momentum |-> e.physics.momentum,
     on_ground |-> e.physics.on_ground,
     facing |-> e.facing]

\* The hits resolve_hits applies to `eng` (boxes gathered), one entry per result.
HitLogOf(eng) ==
    LET collisions == CheckCollisions(eng.collision_system)
    IN [k \in 1..Len(collisions) |->
          LET c == collisions[k]
              before == ApplyHits(eng, SubSeq(collisions, 1, k - 1), 1)
              after == ApplyHit(before, c)
              idx == FindEntityIndex(eng, c.defender)
          IN [attacker |-> c.attacker,
              defender |-> c.defender,
              attack_data |-> c.attack_data,
              before |-> EntityView(before.entities[idx]),
              after |-> EntityView(after.entities[idx])]]

----------------------------------------------------------------------------
(* The players: each follows an input script that reads what is on screen, as *)
(* the host loops of examples/basic_match.rs and of the tests do.             *)

Scripts1 == {"stand", "rushLight", "rushHeavy", "mixup"}

Scripts2 == {"stand", "rushLight", "rushHeavy"}

Press(button) ==
    InputState("Neutral", button = "Light", button = "Medium", button = "Heavy",
               button = "Special")

Dir(d) == InputState(d, FALSE, FALSE, FALSE, FALSE)

\* The input player p gives in the coming tick:
\*   stand      never touches the controls;
\*   rushX      walks forward until within EngageDist, then taps X every other tick;
\*   mixup      as rushX, with Light while the opponent's health is a multiple of
\*              100 and Heavy otherwise;
\*   closeX     as rushX, walking on until within CloseDist.
ScriptInput(script, p) ==
    IF entity_count < 2 THEN NeutralInput
    ELSE LET me == entities[p]
             opp == entities[1 - p]
             dist == Abs(opp.physics.position.x - me.physics.position.x)
             held == Current(input_manager[p])
             Within(range, button) == IF dist > range THEN Dir("Forward")
                                      ELSE IF ButtonPressed(held, button) THEN NeutralInput
                                      ELSE Press(button)
             Rush(button) == Within(EngageDist, button)
         IN CASE script = "stand" -> NeutralInput
              [] script = "rushLight" -> Rush("Light")
              [] script = "rushHeavy" -> Rush("Heavy")
              [] script = "mixup" ->
                    Rush(IF opp.health.current % 100 = 0 THEN "Light" ELSE "Heavy")
              [] script = "closeLight" -> Within(CloseDist, "Light")
              [] script = "closeHeavy" -> Within(CloseDist, "Heavy")

\* The host asks for a rematch before the first frame is over, right after a hit
\* landed, or once the match is concluded.
RematchPoint == ticks <= MaxPreFrame \/ hit_log # <<>> \/ game_result # "InProgress"

FrameLimit == IF inits = 0 THEN MaxPreFrame
              ELSE IF inits = 1 THEN MaxFrame
              ELSE MaxRematchFrame

----------------------------------------------------------------------------
(* Specification of the engine *)

\* The operations the stand-alone components count.
UnitOps == {"register_state", "transition", "add_box"}

InitBase ==
    /\ frame = EngineNew.frame
    /\ entities = EngineNew.entities
    /\ entity_count = EngineNew.entity_count
    /\ collision_system = EngineNew.collision_system
    /\ input_manager = EngineNew.input_manager
    /\ game_result = EngineNew.game_result
    /\ inits = 0
    /\ last_op = "new"
    /\ prev_frame = 0
    /\ ticks = 0
    /\ pushed = [p \in 0..1 |-> <<NeutralInput, NeutralInput>>]
    /\ hit_log = <<>>
    /\ ubuf = InputBufferNew("Right")
    /\ uhist = <<>>
    /\ uent = EntityNew(0, PLAYER_1, Vec2(-50000, 0))
    /\ strikes = 0
    /\ usm = StateMachineNew
    /\ utarget = "none"
    /\ usince = 0
    /\ ucs = CollisionSystemNew
    /\ uphys = PhysicsNew(Vec2Zero)
    /\ ulog = [op |-> "new", arg |-> 0]
    /\ ucnt = [o \in UnitOps |-> 0]

Init ==
    /\ InitBase
    /\ plan \in [0..1 -> Scripts1 \cup Scripts2]
    /\ plan[0] \in Scripts1
    /\ plan[1] \in Scripts2
    /\ umode = "stick"

InitMatch ==
    /\ inits < MaxInits
    /\ inits > 0 => RematchPoint
    /\ SetEngine(EngineInitMatch(Engine))
    /\ inits' = inits + 1
    /\ last_op' = "init_match"
    /\ prev_frame' = frame
    /\ ticks' = 0
    /\ hit_log' = <<>>
    /\ UNCHANGED <<plan, pushed, unitVars, partVars>>

TickWith(p1_input, p2_input) ==
    /\ ticks < FrameLimit
    /\ last_op' = "tick"
    /\ prev_frame' = frame
    /\ ticks' = ticks + 1
    /\ IF TickRuns(Engine)
       THEN \E e3 \in {TickBoxes(Engine, p1_input, p2_input)} :
              /\ SetEngine(TickFinish(e3))
              /\ hit_log' = HitLogOf(e3)
              /\ pushed' = [p \in 0..1 |->
                              <<pushed[p][2], IF p = 0 THEN p1_input ELSE p2_input>>]
       ELSE /\ UNCHANGED engineVars
            /\ pushed' = pushed
            /\ hit_log' = <<>>
    /\ UNCHANGED <<plan, inits, unitVars, partVars>>

Tick == TickWith(ScriptInput(plan[0], 0), ScriptInput(plan[1], 1))

Next == InitMatch \/ Tick

Spec == Init /\ [][Next]_vars


----------------------------------------------------------------------------
(* Hit application on its own: a defender holding any direction receives a   *)
(* collision result for any of a few attacks, as resolve_hits applies it.    *)

MaxStrikes == 2

AttackOf(s) == s.frame_data[1].action.attack

StrikeAttacks ==
    {AttackOf(StateLightAttack),
     AttackOf(StateHeavyAttack),
     Unblockable(AttackOf(StateMediumAttack)),
     WithKnockback(AttackDataNew(1000), 401, -50)}

StrikeDirections == {"Neutral", "Back", "DownBack", "UpBack", "Forward", "Down"}

InitHit == InitBase /\ plan = [p \in 0..1 |-> "stand"] /\ umode = "stick"

\* The defender's input of the frame is pushed (phase 1 of tick), a hitbox of the
\* other player is put over the defender's hurtbox, and the hits are resolved.
Strike(defender, direction, attack) ==
    /\ entity_count = 2
    /\ strikes < MaxStrikes
    /\ LET im == UpdatePlayerInput(input_manager, entities[defender].player_id,
                                   Dir(direction))
           hurtboxes == GetHurtboxes(entities[defender])
           hitbox == CollisionBoxHitbox(entities[1 - defender].id, hurtboxes[1].bounds,
                                        attack)
           cs == AddHurtboxes(AddHitbox(Clear(collision_system), hitbox), hurtboxes, 1)
           e3 == [Engine EXCEPT !.input_manager = im, !.collision_system = cs]
       IN /\ SetEngine(ResolveHits(e3))
          /\ hit_log' = HitLogOf(e3)
    /\ pushed' = [pushed EXCEPT ![defender] = <<@[2], Dir(direction)>>]
    /\ strikes' = strikes + 1
    /\ last_op' = "strike"
    /\ prev_frame' = frame
    /\ UNCHANGED <<plan, inits, ticks, ubuf, uhist, uent, umode, partVars>>

NextHit ==
    \/ inits = 0 /\ InitMatch
    \/ \E defender \in 0..1, direction \in StrikeDirections, attack \in StrikeAttacks :
          Strike(defender, direction, attack)

SpecHit == InitHit /\ [][NextHit]_vars

----------------------------------------------------------------------------
(* One input buffer and the entity that reads it, on their own: after any   *)
(* number of neutral frames the player gives a few frames of free input,    *)
(* with the stick or with the buttons. Each frame pushes the snapshot       *)
(* (phase 1 of tick) and updates the entity with the buffer (phase 2).      *)

MaxWarmup == 31
MaxFreePushes == 5

BufModes == {"stick", "buttons", "chords"}

\* With chords the owner rolls the stick and presses several buttons at once.
BufInputs ==
    IF umode = "stick"
    THEN {Dir(d) : d \in {"Neutral", "Down", "DownForward", "Forward"}}
    ELSE IF umode = "buttons"
    THEN {NeutralInput, Press("Light"), Press("Heavy")}
    ELSE {Dir("Down"), Dir("DownForward"),
          InputState("Forward", FALSE, FALSE, FALSE, TRUE),
          InputState("Forward", TRUE, TRUE, TRUE, TRUE),
          InputState("Up", FALSE, TRUE, TRUE, FALSE)}

\* The number of leading neutral snapshots of a history.
RECURSIVE LeadingNeutrals(_)
LeadingNeutrals(h) ==
    IF h = <<>> \/ Head(h) # NeutralInput THEN 0 ELSE 1 + LeadingNeutrals(Tail(h))

InitBuf == InitBase /\ plan = [p \in 0..1 |-> "stand"] /\ umode \in BufModes

BufFrame(input) ==
    /\ \E b \in {Push(ubuf, input)} :
          /\ ubuf' = b
          /\ uent' = EntityUpdate(uent, <<b>>)
    /\ uhist' = Append(uhist, input)
    /\ UNCHANGED <<engineVars, histVars, umode, strikes, partVars>>

BufWarm ==
    /\ umode # "chords"
    /\ Len(uhist) < MaxWarmup
    /\ LeadingNeutrals(uhist) = Len(uhist)
    /\ BufFrame(NeutralInput)

BufPush ==
    /\ Len(uhist) - Min(LeadingNeutrals(uhist), MaxWarmup) < MaxFreePushes
    /\ \E input \in BufInputs : BufFrame(input)

NextBuf == BufWarm \/ BufPush

SpecBuf == InitBuf /\ [][NextBuf]_vars

----------------------------------------------------------------------------
(* One state machine on its own: a few states are registered, then the      *)
(* machine is sent to states (registered or not) and advanced frame by      *)
(* frame.                                                                   *)

MaxRegistered == 2
MaxTransitions == 2
MaxAdvances == 5
MaxDuration == 3

\* The states offered for registration; Knockdown comes with every short duration.
SmStates ==
    {StateIdle, StateLightAttack}
        \cup {StateNew("Knockdown", "Hurt", d) : d \in 0..MaxDuration}

SmIds == {"Idle", "LightAttack", "Knockdown", "SpecialMove"}

Count(op) == [ucnt EXCEPT ![op] = @ + 1]

SmRegister(s) ==
    /\ ulog.op \in {"new", "register_state"}
    /\ ucnt["register_state"] < MaxRegistered
    /\ usm' = RegisterState(usm, s)
    /\ ulog' = [op |-> "register_state", arg |-> s.id]
    /\ ucnt' = Count("register_state")
    /\ UNCHANGED <<utarget, usince, ucs, uphys>>
    /\ UNCHANGED <<engineVars, histVars, unitVars>>

SmTransition(id) ==
    /\ ucnt["transition"] < MaxTransitions
    /\ usm' = Transition(usm, id)
    /\ utarget' = id
    /\ usince' = 0
    /\ ulog' = [op |-> "transition", arg |-> id]
    /\ ucnt' = Count("transition")
    /\ UNCHANGED <<engineVars, histVars, unitVars, ucs, uphys>>

SmAdvance ==
    /\ usince < MaxAdvances
    /\ usm' = AdvanceFrame(usm)
    /\ usince' = usince + 1
    /\ ulog' = [op |-> "advance_frame", arg |-> usm.current_state]
    /\ UNCHANGED <<utarget, ucnt, ucs, uphys>>
    /\ UNCHANGED <<engineVars, histVars, unitVars>>

\* The start of every run on one component: all components as constructed.
InitUnit == InitBase /\ plan = [p \in 0..1 |-> "stand"] /\ umode = "stick"

NextSM ==
    \/ \E s \in SmStates : SmRegister(s)
    \/ \E id \in SmIds : SmTransition(id)
    \/ SmAdvance

SpecSM == InitUnit /\ [][NextSM]_vars

----------------------------------------------------------------------------------------------------------------------------------------
(* One collision system on its own: a few boxes of two owners are added one *)
(* by one, and a caller's loop adds the last hitbox, or the last hurtbox,   *)
(* FillCount more times, up to and beyond the capacity.                     *)

MaxFreeBoxes == 3

FillCount == 16

ColRects == {Rect(0, 0, 10, 10), Rect(10, 0, 10, 10), Rect(5, 5, 10, 10)}

ColOwners == {0, 1}

\* The attack a hitbox carries: its damage tells the hitboxes apart.
ColAttack(rect) == AttackDataNew(100 + rect.x)

ColAdd(box) ==
    /\ ucnt["add_box"] < MaxFreeBoxes
    /\ ucs' = IF box.box_type = "Hitbox" THEN AddHitbox(ucs, box) ELSE AddHurtbox(ucs, box)
    /\ ulog' = [op |-> "add_box", arg |-> box.box_type]
    /\ ucnt' = Count("add_box")
    /\ UNCHANGED <<usm, utarget, usince, uphys>>
    /\ UNCHANGED <<engineVars, histVars, unitVars>>

\* add_hitbox called FillCount times in a row with the hitbox stored last.
ColFillHitboxes ==
    /\ Len(ucs.hitboxes) >= 1
    /\ Len(ucs.hurtboxes) <= MaxFreeBoxes
    /\ ucs' = AddHitboxes(ucs, [k \in 1..FillCount |-> ucs.hitboxes[Len(ucs.hitboxes)]], 1)
    /\ ulog' = [op |-> "add_hitbox", arg |-> Len(ucs.hitboxes)]
    /\ UNCHANGED <<usm, utarget, usince, uphys, ucnt>>
    /\ UNCHANGED <<engineVars, histVars, unitVars>>

\* add_hurtbox called FillCount times in a row with the hurtbox stored last.
ColFillHurtboxes ==
    /\ Len(ucs.hurtboxes) >= 1
    /\ Len(ucs.hitboxes) <= MaxFreeBoxes
    /\ ucs' = AddHurtboxes(ucs, [k \in 1..FillCount |-> ucs.hurtboxes[Len(ucs.hurtboxes)]], 1)
    /\ ulog' = [op |-> "add_hurtbox", arg |-> Len(ucs.hurtboxes)]
    /\ UNCHANGED <<usm, utarget, usince, uphys, ucnt>>
    /\ UNCHANGED <<engineVars, histVars, unitVars>>

NextCol ==
    \/ \E o \in ColOwners, r \in ColRects :
          \/ ColAdd(CollisionBoxHitbox(o, r, ColAttack(r)))
          \/ ColAdd(CollisionBoxHurtbox(o, r))
    \/ ColFillHitboxes
    \/ ColFillHurtboxes

SpecCol == InitUnit /\ [][NextCol]_vars

----------------------------------------------------------------------------
(* One Physics value on its own: one knockback, then updates and no further *)
(* hit.                                                                     *)

MaxUpdates == 100

KnockImpulses == {0, 9, -9, 150, -150, 1000, -1000, 30000000, -30000000}

PhysKnockback(x, y) ==
    /\ ulog.op = "new"
    /\ uphys' = ApplyKnockback(uphys, x, y)
    /\ usince' = 0
    /\ ulog' = [op |-> "apply_knockback", arg |-> <<x, y>>]
    /\ UNCHANGED <<usm, utarget, ucs, ucnt>>
    /\ UNCHANGED <<engineVars, histVars, unitVars>>

\* update returns; without overflow checks the product wraps around.
PhysUpdate ==
    /\ ulog.op \in {"apply_knockback", "update"}
    /\ usince < MaxUpdates
    /\ uphys' = PhysicsUpdate(uphys)
    /\ usince' = usince + 1
    /\ ulog' = [op |-> "update", arg |-> ulog.arg]
    /\ UNCHANGED <<usm, utarget, ucs, ucnt>>
    /\ UNCHANGED <<engineVars, histVars, unitVars>>

\* update panics at the multiplication (overflow checks on): no value is returned.
PhysUpdatePanic ==
    /\ ulog.op \in {"apply_knockback", "update"}
    /\ usince < MaxUpdates
    /\ UpdateOverflows(uphys)
    /\ ulog' = [op |-> "panic", arg |-> ulog.arg]
    /\ UNCHANGED <<usm, utarget, usince, ucs, uphys, ucnt>>
    /\ UNCHANGED <<engineVars, histVars, unitVars>>

NextPhys ==
    \/ \E x \in KnockImpulses, y \in KnockImpulses : PhysKnockback(x, y)
    \/ PhysUpdate
    \/ PhysUpdatePanic

SpecPhys == InitUnit /\ [][NextPhys]_vars

----------------------------------------------------------------------------
(* Properties of the engine, checked under Spec *)

\* The outcome the healths of the two players call for.
OutcomeOf(h1, h2) ==
    IF h1 > 0 /\ h2 > 0 THEN "InProgress"
    ELSE IF h1 > 0 THEN "Player1Wins"
    ELSE IF h2 > 0 THEN "Player2Wins"
    ELSE "Draw"

\* C1: a tick called once game_result is not InProgress changes neither the frame
\* counter, nor the entities, nor the players' input buffers, nor game_result.
C1_TickAfterEndIsNoOp ==
    [][(last_op' = "tick" /\ ticks' = ticks + 1 /\ game_result # "InProgress")
         => UNCHANGED <<frame, entities, entity_count, input_manager, game_result>>]_vars

\* A tick has been called on a concluded match.
C1_Witness ==
    /\ last_op = "tick"
    /\ game_result # "InProgress"
    /\ prev_frame = frame

\* C3: after a tick on an initialized match, game_result is the outcome the healths
\* left by that tick call for, so a KO shows in the tick of the killing hit.
C3_ResultMatchesHealth ==
    (last_op = "tick" /\ entity_count = 2)
        => game_result = OutcomeOf(entities[0].health.current, entities[1].health.current)

\* The tick in which both players are knocked out at once.
C3_Witness ==
    /\ last_op = "tick"
    /\ prev_frame + 1 = frame
    /\ Len(hit_log) = 2
    /\ \A k \in 1..2 : hit_log[k].before.health > 0 /\ hit_log[k].after.health = 0
    /\ game_result = "Draw"

\* C4: every entity's health stays within 0 .. maximum.
C4_HealthInRange ==
    \A i \in 0..(entity_count - 1) :
        /\ 0 <= entities[i].health.current
        /\ entities[i].health.current <= entities[i].health.maximum

\* A hit whose damage exceeds the health left, in a tick with two hits.
C4_Witness ==
    /\ Len(hit_log) = 2
    /\ \E k \in 1..2 :
          /\ hit_log[k].before.health > 0
          /\ hit_log[k].before.health < hit_log[k].attack_data.damage
          /\ hit_log[k].after.health = 0

\* Both players leave the controls alone for the whole match.
NeutralMatch == plan[0] = "stand" /\ plan[1] = "stand" /\ inits = 1

\* C5 as stated: the frame counter never decreases.
C5_FrameNeverDecreases == [][frame' >= frame]_vars

\* C5, amended: a tick never decreases the frame counter and a tick of a match in
\* progress adds exactly 1 to it (init_match alone sets it back to 0); N neutral
\* ticks after init_match leave frame = N, full health and InProgress.
C5_FrameCounts ==
    /\ [][last_op' = "tick" /\ ticks' = ticks + 1
            => frame' = IF game_result = "InProgress" THEN frame + 1 ELSE frame]_vars
    /\ [](NeutralMatch =>
            /\ frame = ticks
            /\ game_result = "InProgress"
            /\ \A i \in 0..1 : entities[i].health.current = 1000)

\* MaxFrame neutral ticks have been counted.
C5_Witness ==
    /\ NeutralMatch
    /\ last_op = "tick"
    /\ ticks = MaxFrame
    /\ frame = MaxFrame

\* The start state of a match.
StartState ==
    /\ frame = 0
    /\ game_result = "InProgress"
    /\ entity_count = 2
    /\ \A i \in 0..1 :
          /\ entities[i].physics.position = Vec2(IF i = 0 THEN -50000 ELSE 50000, 0)
          /\ entities[i].facing = IF i = 0 THEN "Right" ELSE "Left"
          /\ entities[i].player_id = i
          /\ entities[i].physics.on_ground
          /\ entities[i].health = [current |-> 1000, maximum |-> 1000]
          /\ entities[i].physics.momentum = Vec2(0, 0)
          /\ entities[i].hitstun_remaining = 0
          /\ entities[i].blockstun_remaining = 0
          /\ entities[i].state_machine.current_state = "Idle"
          /\ entities[i].state_machine.state_frame = 0

\* C8: init_match leaves the start state, whatever the engine did before.
C8_InitMatchStartState == last_op = "init_match" => StartState

\* init_match called on a match in which a hit has just landed.
C8_Witness ==
    /\ last_op = "init_match"
    /\ inits = 2
    /\ prev_frame > MaxPreFrame
    /\ StartState

----------------------------------------------------------------------------
(* Properties of hit application, checked under SpecHit *)

BackDirections == {"Back", "DownBack", "UpBack"}

\* The defender of hit h holds back while the hit is applied.
HoldsBack(h) == pushed[h.defender][2].direction \in BackDirections

\* Minus the sign of a facing, as the knockback of a hit uses it.
AwayFrom(facing) == IF facing = "Right" THEN -1 ELSE 1

C7_ConnectedHit ==
    \A k \in 1..Len(hit_log) :
        LET h == hit_log[k]
            a == h.attack_data
        IN (~HoldsBack(h) \/ ~a.can_block) =>
              /\ h.after.health = Max(0, h.before.health - a.damage)
              /\ h.after.hitstun_remaining = a.hitstun
              /\ h.after.current_state = "Hitstun"
              /\ h.after.momentum =
                    Vec2(h.before.momentum.x + a.pushback_x * AwayFrom(h.before.facing),
                         h.before.momentum.y + a.pushback_y)

\* An unblockable hit on a defender that holds back and is already hurt.
C7_Witness ==
    /\ last_op = "strike"
    /\ Len(hit_log) = 1
    /\ HoldsBack(hit_log[1])
    /\ ~hit_log[1].attack_data.can_block
    /\ hit_log[1].before.health < 1000
    /\ hit_log[1].after.health = hit_log[1].before.health - 100
    /\ hit_log[1].after.current_state = "Hitstun"

----------------------------------------------------------------------------
(* Properties of the input buffer, checked under SpecBuf *)

\* Pushes k, k+1 and k+2 of the history are Down, DownForward, Forward.
QcfAt(k) ==
    /\ uhist[k].direction = "Down"
    /\ uhist[k + 1].direction = "DownForward"
    /\ uhist[k + 2].direction = "Forward"

\* C9: detect_qcf is true right after Down, DownForward, Forward were pushed on
\* three consecutive frames, and false after a history in which these three never
\* follow each other without a gap.
C9_QcfGapless ==
    LET n == Len(uhist)
    IN /\ (n >= 3 /\ QcfAt(n - 2)) => DetectQcf(ubuf)
       /\ (\A k \in 1..(n - 2) : ~QcfAt(k)) => ~DetectQcf(ubuf)

\* Down, Neutral, DownForward, Neutral, Forward pushed across the end of the ring.
C9_Witness ==
    LET n == Len(uhist)
    IN /\ n = INPUT_BUFFER_SIZE + 2
       /\ [k \in 1..5 |-> uhist[n - 5 + k].direction]
             = <<"Down", "Neutral", "DownForward", "Neutral", "Forward">>
       /\ ~DetectQcf(ubuf)

AttackButtons == {"Light", "Medium", "Heavy"}

AttackState(button) ==
    CASE button = "Light" -> "LightAttack"
      [] button = "Medium" -> "MediumAttack"
      [] button = "Heavy" -> "HeavyAttack"

\* Button b is held in the last snapshot of history h and not in the one before.
FirstFrameOfHold(h, b) ==
    /\ Len(h) >= 1
    /\ ButtonPressed(h[Len(h)], b)
    /\ Len(h) >= 2 => ~ButtonPressed(h[Len(h) - 1], b)

\* C10: button_just_pressed(b) is true exactly when b is held in the snapshot pushed
\* last and not in the one pushed before it, also once the ring has wrapped; and
\* the entity enters an attack state only on the first frame of a hold of its button.
C10_ButtonEdge ==
    /\ [](\A b \in Buttons : ButtonJustPressed(ubuf, b) <=> FirstFrameOfHold(uhist, b))
    /\ [][\A b \in AttackButtons :
            (/\ uent'.state_machine.current_state = AttackState(b)
             /\ uent.state_machine.current_state # AttackState(b))
                => FirstFrameOfHold(uhist', b)]_vars

\* Light held for the second frame in a row, across the end of the ring: no edge,
\* and the attack started on the first frame goes on.
C10_Witness ==
    LET n == Len(uhist)
    IN /\ n = INPUT_BUFFER_SIZE + 1
       /\ ButtonPressed(uhist[n], "Light")
       /\ ButtonPressed(uhist[n - 1], "Light")
       /\ ~ButtonPressed(uhist[n - 2], "Light")
       /\ ~ButtonJustPressed(ubuf, "Light")
       /\ uent.state_machine.current_state = "LightAttack"
       /\ uent.state_machine.state_frame = 2

----------------------------------------------------------------------------
(* Properties of the state machine, checked under SpecSM *)

\* The duration of the state registered for `id`, -1 when there is none.
DurationOf(id) ==
    LET i == FindState(usm, id)
    IN IF i = 0 THEN -1 ELSE usm.states[i].duration

\* The machine is Idle once the advances since the last transition call number at
\* least the duration of its target, for targets of a duration of at least `least`.
ExpiredFrom(least) ==
    (DurationOf(utarget) >= least /\ usince >= DurationOf(utarget))
        => usm.current_state = "Idle"

\* C11 as stated: for a registered state of any duration D, the machine is Idle after
\* the transition into it and D advances.
C11_ExpiryAnyDuration == ExpiredFrom(0)

\* C11, amended: for a registered state of duration D >= 1, the machine is Idle after
\* the transition into it and D advances with no other transition, so it becomes
\* Idle at the D-th advance at the latest (a state of duration 0 is still current
\* after 0 advances and expires at the first one).
C11_StateExpires == ExpiredFrom(1)

\* A state of duration MaxDuration has just expired at its last advance.
C11_Witness ==
    /\ ulog.op = "advance_frame"
    /\ ulog.arg = "Knockdown"
    /\ utarget = "Knockdown"
    /\ DurationOf("Knockdown") = MaxDuration
    /\ usince = MaxDuration
    /\ usm.current_state = "Idle"
    /\ usm.state_frame = 0

\* A transition call to the current state changes nothing; to another state it sets
\* that state with state_frame 0.
TransitionStep ==
    ulog'.op = "transition" =>
        IF ulog'.arg = usm.current_state
        THEN usm' = usm
        ELSE usm' = [usm EXCEPT !.current_state = ulog'.arg, !.state_frame = 0]

\* transition applied twice with the same id gives what it gives applied once.
TransitionIdempotent ==
    \A id \in SmIds : Transition(Transition(usm, id), id) = Transition(usm, id)

\* C18: transition(id) with id the current state changes nothing, state_frame
\* included; with another id it sets the current state to id and state_frame to 0;
\* applied twice it gives the same as applied once.
C18_Transition == []TransitionIdempotent /\ [][TransitionStep]_vars

\* transition was called with the state the machine was in for some frames already.
C18_Witness ==
    /\ ulog = [op |-> "transition", arg |-> "LightAttack"]
    /\ usm.current_state = "LightAttack"
    /\ usm.state_frame > 0

\* No registered state has the id of the current state.
CurrentUnregistered ==
    \A i \in 1..Len(usm.states) : usm.states[i].id # usm.current_state

\* What a state machine in an unregistered state answers, and what advance_frame
\* makes of it.
FallbackAnswers ==
    CurrentUnregistered =>
        /\ ~CanCancel(usm)
        /\ GetCurrentActions(usm) = <<>>
        /\ AdvanceFrame(usm) = [usm EXCEPT !.state_frame = @ + 1]

\* advance_frame called in an unregistered state only counts the frame.
FallbackStep ==
    (ulog'.op = "advance_frame" /\ CurrentUnregistered)
    => usm' = [usm EXCEPT !.state_frame = @ + 1]

\* C19: while the current state id is not registered, advance_frame only increments
\* state_frame and never transitions, can_cancel is false and get_current_actions
\* returns no action.
C19_UnregisteredFallback == []FallbackAnswers /\ [][FallbackStep]_vars

\* SpecialMove, which nothing registers, has lasted MaxAdvances frames in a state
\* machine with two registered states.
C19_Witness ==
    /\ ulog = [op |-> "advance_frame", arg |-> "SpecialMove"]
    /\ usm.current_state = "SpecialMove"
    /\ usm.state_frame = MaxAdvances
    /\ Len(usm.states) = 2
    /\ CanCancel([usm EXCEPT !.current_state = usm.states[2].id])

----------------------------------------------------------------------------
(* Properties of the collision system, checked under SpecCol *)

\* The open intervals ]a1, a2[ and ]b1, b2[ have a point in common (on the half-unit
\* grid, which separates any two integer bounds).
IntervalsMeet(a1, a2, b1, b2) ==
    \E p \in (2 * Min(a1, b1))..(2 * Max(a2, b2)) :
        2 * a1 < p /\ p < 2 * a2 /\ 2 * b1 < p /\ p < 2 * b2

\* The interiors of two rectangles have a point in common.
InteriorsMeet(a, b) ==
    /\ IntervalsMeet(a.x, a.x + a.width, b.x, b.x + b.width)
    /\ IntervalsMeet(a.y, a.y + a.height, b.y, b.y + b.height)

\* The rectangles of the boxes stored in the collision system.
StoredRects ==
    {ucs.hitboxes[i].bounds : i \in 1..Len(ucs.hitboxes)}
        \cup {ucs.hurtboxes[j].bounds : j \in 1..Len(ucs.hurtboxes)}

\* Some stored hitbox and some stored hurtbox of another owner have interiors that meet.
SomePairMeets ==
    \E i \in 1..Len(ucs.hitboxes), j \in 1..Len(ucs.hurtboxes) :
        /\ ucs.hitboxes[i].owner # ucs.hurtboxes[j].owner
        /\ InteriorsMeet(ucs.hitboxes[i].bounds, ucs.hurtboxes[j].bounds)

\* C12: intersects is symmetric and strict: it is true exactly when the interiors of
\* the two rectangles meet, so not for rectangles that only share an edge; hence
\* check_collisions gives a result only when a hitbox and a hurtbox of different
\* owners have interiors that meet.
C12_IntersectsStrict ==
    /\ \A a \in StoredRects, b \in StoredRects :
          /\ Intersects(a, b) = Intersects(b, a)
          /\ Intersects(a, b) = InteriorsMeet(a, b)
    /\ ~Intersects(Rect(0, 0, 10, 10), Rect(10, 0, 10, 10))
    /\ Intersects(Rect(0, 0, 10, 10), Rect(5, 5, 10, 10))
    /\ (CheckCollisions(ucs) # <<>>) = SomePairMeets

\* A hitbox and a hurtbox of different owners that share an edge, and no result.
C12_Witness ==
    /\ Len(ucs.hitboxes) = 1
    /\ Len(ucs.hurtboxes) = 1
    /\ ucs.hitboxes[1].owner # ucs.hurtboxes[1].owner
    /\ ucs.hitboxes[1].bounds = Rect(0, 0, 10, 10)
    /\ ucs.hurtboxes[1].bounds = Rect(10, 0, 10, 10)
    /\ CheckCollisions(ucs) = <<>>

\* The owners that have a hitbox stored in the collision system.
HitboxOwners == {ucs.hitboxes[i].owner : i \in 1..Len(ucs.hitboxes)}

\* C13: check_collisions never returns a result whose attacker is its defender,
\* whatever the overlap, and an owner is the defender of a result only if a hitbox of
\* another owner is stored: an entity's own hitboxes never hit it.
C13_NoSelfCollision ==
    LET results == CheckCollisions(ucs)
    IN \A k \in 1..Len(results) :
          /\ results[k].attacker # results[k].defender
          /\ results[k].attacker \in HitboxOwners \ {results[k].defender}

\* A hitbox that overlaps a hurtbox of its own owner, and no result.
C13_Witness ==
    /\ Len(ucs.hitboxes) = 1
    /\ Len(ucs.hurtboxes) = 1
    /\ ucs.hitboxes[1].owner = ucs.hurtboxes[1].owner
    /\ ucs.hitboxes[1].bounds = Rect(0, 0, 10, 10)
    /\ ucs.hurtboxes[1].bounds = Rect(5, 5, 10, 10)
    /\ Intersects(ucs.hitboxes[1].bounds, ucs.hurtboxes[1].bounds)
    /\ CheckCollisions(ucs) = <<>>

\* The pairs <<hitbox index, hurtbox index>> of different owners whose interiors meet.
Surviving ==
    {q \in {<<i, j>> : i \in 1..Len(ucs.hitboxes), j \in 1..Len(ucs.hurtboxes)} :
        /\ ucs.hitboxes[q[1]].owner # ucs.hurtboxes[q[2]].owner
        /\ InteriorsMeet(ucs.hitboxes[q[1]].bounds, ucs.hurtboxes[q[2]].bounds)}

\* The place of a pair in the iteration of check_collisions: hitboxes in the outer
\* loop, hurtboxes in the inner one.
IterationIndex(q) == (q[1] - 1) * Len(ucs.hurtboxes) + q[2]

\* The number of pairs of `pairs` that the iteration reaches before the pair q.
PairsBefore(pairs, q) ==
    Cardinality({r \in pairs : IterationIndex(r) < IterationIndex(q)})

\* check_collisions returns the surviving pairs in iteration order, cut after the
\* first MAX_COLLISIONS_PER_FRAME.
FirstResultsKept ==
    \E results \in {CheckCollisions(ucs)}, surviving \in {Surviving} :
       /\ Len(results) = Min(Cardinality(surviving), 16)
       /\ \A q \in surviving :
             PairsBefore(surviving, q) < 16 =>
                results[PairsBefore(surviving, q) + 1] =
                    [attacker |-> ucs.hitboxes[q[1]].owner,
                     defender |-> ucs.hurtboxes[q[2]].owner,
                     attack_data |-> ucs.hitboxes[q[1]].attack_data[1]]

\* With 32 boxes stored, one more add of any box returns the same collision system.
FullDropsAdd ==
    \A o \in ColOwners, r \in ColRects :
        /\ Len(ucs.hitboxes) = 32 =>
              AddHitbox(ucs, CollisionBoxHitbox(o, r, ColAttack(r))) = ucs
        /\ Len(ucs.hurtboxes) = 32 => AddHurtbox(ucs, CollisionBoxHurtbox(o, r)) = ucs

\* The calls made on a full collection change nothing.
FullStaysAsIs ==
    /\ Len(ucs.hitboxes) = 32 => ucs'.hitboxes = ucs.hitboxes
    /\ Len(ucs.hurtboxes) = 32 => ucs'.hurtboxes = ucs.hurtboxes

\* C17: add_hitbox and add_hurtbox with 32 boxes stored leave the stored boxes and
\* their count unchanged, and check_collisions returns at most 16 results, the first
\* 16 surviving pairs in iteration order.
C17_OverflowDropped == [](FullDropsAdd /\ FirstResultsKept) /\ [][FullStaysAsIs]_vars

\* add_hitbox was called on 32 stored hitboxes; two of them hit a hurtbox, the first
\* with another attack than the 31 after it, and 16 results are kept.
C17_Witness ==
    /\ ulog = [op |-> "add_hitbox", arg |-> 32]
    /\ Len(ucs.hitboxes) = 32
    /\ Cardinality(Surviving) = 32
    /\ Len(CheckCollisions(ucs)) = 16
    /\ CheckCollisions(ucs)[1].attack_data # CheckCollisions(ucs)[2].attack_data

----------------------------------------------------------------------------
(* Properties of Physics, checked under SpecPhys *)

\* One update step took a non-zero momentum component to a smaller magnitude.
Decays(old, new) == old # 0 => Abs(new) < Abs(old)

\* 90 % of a momentum component, truncated toward zero.
NinetyPercent(m) == TruncDiv(m * 9, 10)

\* An update call made on momentum components of magnitude at most `most` returns,
\* each non-zero component gets a smaller magnitude, x becomes 90 % of itself and
\* y becomes 90 % of itself or 0 (on the ground).
DecayStep(most) ==
    (/\ ulog'.op \in {"update", "panic"}
     /\ Abs(uphys.momentum.x) <= most
     /\ Abs(uphys.momentum.y) <= most)
    => /\ ulog'.op = "update"
       /\ Decays(uphys.momentum.x, uphys'.momentum.x)
       /\ Decays(uphys.momentum.y, uphys'.momentum.y)
       /\ uphys'.momentum.x = NinetyPercent(uphys.momentum.x)
       /\ uphys'.momentum.y \in {NinetyPercent(uphys.momentum.y), 0}

\* From an impulse of magnitude at most 1000 the component is below 10 after
\* 100 updates, and 0.
Converged ==
    (ulog.op = "update" /\ usince >= 100)
    => /\ Abs(ulog.arg[1]) <= 1000 => uphys.momentum.x = 0
       /\ Abs(ulog.arg[2]) <= 1000 => uphys.momentum.y = 0

\* C14 as stated: after apply_knockback, every update decreases the magnitude of each
\* non-zero momentum component (to 90 %, truncated toward zero), and an impulse of
\* 1000 has decayed below 10, to 0, within 100 updates.
C14_DecayEveryUpdate == []Converged /\ [][DecayStep(I32_MAX)]_vars

\* C14 for components whose product with 90 fits an i32.
C14_DecayInRange == []Converged /\ [][DecayStep(I32_MAX \div MOMENTUM_DECAY_PERCENT)]_vars

\* 100 updates after an impulse of 1000 to the right and 1000 upwards.
C14_Witness ==
    /\ ulog.op = "update"
    /\ ulog.arg = <<1000, -1000>>
    /\ usince = 100
    /\ uphys.momentum = Vec2Zero
    /\ ~uphys.on_ground

----------------------------------------------------------------------------
(* More properties of the engine, checked under Spec *)

\* C15: in every tick of a default match, no player's health after the tick is
\* above its health before the tick.
C15_HealthNeverIncreases ==
    [][last_op' = "tick" =>
         \A i \in 0..(entity_count - 1) :
             /\ entity_count' = entity_count
             /\ entities'[i].health.current <= entities[i].health.current]_vars

\* A tick in which a player that was hurt before lost health again.
C15_Witness ==
    /\ last_op = "tick"
    /\ \E k \in 1..Len(hit_log) :
          /\ hit_log[k].before.health < 1000
          /\ hit_log[k].after.health < hit_log[k].before.health
          /\ entities[hit_log[k].defender].health.current <= hit_log[k].after.health

\* Player p may walk: its state is Idle, it is not stunned and has no momentum.
ReadyToWalk(p) ==
    /\ entities[p].state_machine.current_state = "Idle"
    /\ entities[p].hitstun_remaining = 0
    /\ entities[p].blockstun_remaining = 0
    /\ entities[p].physics.momentum = Vec2Zero

\* The inputs that hold Forward or DownForward and press no button that the
\* snapshot `held` does not hold already.
WalkInputs(held) ==
    {i \in {InputState(d, l, m, h, sp) :
               d \in {"Forward", "DownForward"}, l \in BOOLEAN, m \in BOOLEAN,
               h \in BOOLEAN, sp \in BOOLEAN} :
        \A b \in {"Light", "Medium", "Heavy", "Special"} :
            ButtonPressed(i, b) => ButtonPressed(held, b)}

\* x after the walk of one tick.
WalkedX(e) == e.physics.position.x + 300 * Sign(e.facing)

\* Whatever walk input a player that may walk gives, its update moves it by 300 in
\* the direction it faces and leaves it ready to walk again.
WalksOnAnyWalkInput ==
    \A p \in 0..(entity_count - 1) :
        ReadyToWalk(p) =>
            \A i \in WalkInputs(Current(input_manager[p])) :
                LET e == EntityUpdate(entities[p], <<Push(input_manager[p], i)>>)
                IN /\ e.physics.position.x = WalkedX(entities[p])
                   /\ e.state_machine.current_state = "Idle"
                   /\ e.hitstun_remaining = 0
                   /\ e.blockstun_remaining = 0
                   /\ e.physics.momentum = Vec2Zero

\* A tick in which a player that may walk gives a walk input moves it by 300 in the
\* direction it faces.
WalksInTick ==
    \A p \in 0..(entity_count - 1) :
        (/\ last_op' = "tick"
         /\ ReadyToWalk(p)
         /\ ScriptInput(plan[p], p) \in WalkInputs(Current(input_manager[p])))
        => entities'[p].physics.position.x = WalkedX(entities[p])

\* C16: in every tick in which an unstunned player in Idle with zero momentum holds
\* Forward or DownForward and presses no new attack button, its x changes by exactly
\* 300 times its facing sign (Right +1, Left -1), tick after tick while the direction
\* stays held.
C16_Walking == []WalksOnAnyWalkInput /\ [][WalksInTick]_vars

\* Both players have walked forward in each of the first two ticks of the match.
C16_Witness ==
    /\ last_op = "tick"
    /\ inits = 1
    /\ frame = 2
    /\ \A p \in 0..1 :
          /\ pushed[p] = <<Dir("Forward"), Dir("Forward")>>
          /\ entities[p].facing = (IF p = 0 THEN "Right" ELSE "Left")
          /\ entities[p].physics.position.x = (IF p = 0 THEN -50000 + 600 ELSE 50000 - 600)

----------------------------------------------------------------------------
(* Properties of one entity and its input buffer, checked under SpecBuf *)

\* Button b is down in `input` and was not in the snapshot before it.
Newly(input, b) == ButtonPressed(input, b) /\ ~ButtonPressed(Current(ubuf), b)

\* The attack that `input`, pushed after what ubuf holds, asks for: "none" without
\* a newly pressed attack button (Special counts with a quarter circle forward only).
AttackAskedBy(input) ==
    IF Newly(input, "Light") THEN "LightAttack"
    ELSE IF Newly(input, "Medium") THEN "MediumAttack"
    ELSE IF Newly(input, "Heavy") THEN "HeavyAttack"
    ELSE IF Newly(input, "Special") /\ DetectQcf(Push(ubuf, input)) THEN "SpecialMove"
    ELSE "none"

\* Whatever the entity is given (any buttons, with the stick left alone, pushed
\* up and forward, or pushed back), process_input sends an entity that can act to
\* the attack asked for and changes nothing else: no Walk, WalkBack or Jump.
AttackFirst ==
    CanAct(uent) =>
        \A d \in {"Neutral", "UpForward", "Back"},
           l \in BOOLEAN, m \in BOOLEAN, h \in BOOLEAN, sp \in BOOLEAN :
            LET input == InputState(d, l, m, h, sp)
                asked == AttackAskedBy(input)
            IN asked # "none"
               => ProcessInput(uent, <<Push(ubuf, input)>>)
                     = [uent EXCEPT !.state_machine.current_state = asked,
                                    !.state_machine.state_frame =
                                        IF uent.state_machine.current_state = asked
                                        THEN @ ELSE 0]

\* In a frame with an attack asked for, an entity that can act ends the frame in
\* that attack, where it stood.
AttackFrame ==
    LET asked == AttackAskedBy(uhist'[Len(uhist')])
    IN (CanAct(uent) /\ asked # "none")
       => /\ uent'.state_machine.current_state = asked
          /\ uent'.physics.position = uent.physics.position
          /\ uent'.physics.on_ground

\* C20: an entity that can act goes to LightAttack if Light is among the newly
\* pressed buttons, else to MediumAttack, else to HeavyAttack, else to SpecialMove
\* if Special is newly pressed after a quarter circle forward; when an attack
\* transition fires, the direction of that tick causes no walk or jump.
C20_AttackPriority == []AttackFirst /\ [][AttackFrame]_vars

\* Up with Medium and Heavy gave MediumAttack and no jump; then, at the end of a
\* quarter circle forward, all four buttons at once gave LightAttack and no walk.
C20_Witness ==
    /\ uhist = <<InputState("Up", FALSE, TRUE, TRUE, FALSE), Dir("Down"),
                 Dir("DownForward"), InputState("Forward", TRUE, TRUE, TRUE, TRUE)>>
    /\ DetectQcf(ubuf)
    /\ uent.state_machine.current_state = "LightAttack"
    /\ uent.state_machine.state_frame = 1
    /\ uent.physics.position = Vec2(-50000, 0)
    /\ uent.physics.on_ground

----------------------------------------------------------------------------
(* Properties of the players' entities in the engine, checked under Spec *)

\* The inputs tried on every reachable state: any buttons, with the stick left
\* alone or pushed forward, up or back.
TriedInputs ==
    {InputState(d, l, m, h, sp) :
        d \in {"Neutral", "Forward", "Up", "Back"}, l \in BOOLEAN, m \in BOOLEAN,
        h \in BOOLEAN, sp \in BOOLEAN}

\* The input with all its buttons released.
Released(input) == Dir(input.direction)

\* Player p's entity after an update in which the player pushes `input`.
UpdatedWith(p, input) == EntityUpdate(entities[p], <<Push(input_manager[p], input)>>)

\* Entity e has no stun left and is in Idle or in a state registered as cancelable.
Unlocked(e) ==
    /\ e.hitstun_remaining = 0
    /\ e.blockstun_remaining = 0
    /\ \/ e.state_machine.current_state = "Idle"
       \/ \E i \in 1..Len(e.state_machine.states) :
             /\ e.state_machine.states[i].id = e.state_machine.current_state
             /\ e.state_machine.states[i].can_cancel
             /\ \A j \in 1..(i - 1) :
                   e.state_machine.states[j].id # e.state_machine.current_state

\* The attack of the first of Light, Medium, Heavy that `input` presses and the
\* snapshot `held` does not hold, "none" without one.
AttackPressed(held, input) ==
    IF input.light /\ ~held.light THEN "LightAttack"
    ELSE IF input.medium /\ ~held.medium THEN "MediumAttack"
    ELSE IF input.heavy /\ ~held.heavy THEN "HeavyAttack"
    ELSE "none"

\* The state machine sm one frame later when nothing but time acts on it.
OneFrameLater(sm, duration) ==
    IF sm.state_frame + 1 >= duration
    THEN [sm EXCEPT !.current_state = "Idle", !.state_frame = 0]
    ELSE [sm EXCEPT !.state_frame = @ + 1]

\* For an entity that is stunned after the decrement, or in a state that is neither
\* Idle nor cancelable, the buttons of the input make no difference to its update.
ButtonsGated ==
    \A p \in 0..(entity_count - 1) :
        ~Unlocked(StunTick(entities[p])) =>
            \A input \in TriedInputs :
                UpdatedWith(p, input) = UpdatedWith(p, Released(input))

\* An unstunned entity in HeavyAttack is one frame further in HeavyAttack after its
\* update, or in Idle after the 36th frame, whatever the input.
HeavyLocked ==
    \A p \in 0..(entity_count - 1) :
        (/\ entities[p].state_machine.current_state = "HeavyAttack"
         /\ entities[p].hitstun_remaining = 0
         /\ entities[p].blockstun_remaining = 0)
        => \A input \in TriedInputs :
              UpdatedWith(p, input).state_machine
                 = OneFrameLater(entities[p].state_machine, 36)

\* An unstunned entity in LightAttack or MediumAttack is, after its update, in the
\* first frame of the other attack its player newly presses.
LightMediumCancel ==
    \A p \in 0..(entity_count - 1) :
        (/\ entities[p].state_machine.current_state \in {"LightAttack", "MediumAttack"}
         /\ entities[p].hitstun_remaining = 0
         /\ entities[p].blockstun_remaining = 0)
        => \A input \in TriedInputs :
              LET asked == AttackPressed(Current(input_manager[p]), input)
              IN asked \notin {"none", entities[p].state_machine.current_state}
                 => /\ UpdatedWith(p, input).state_machine.current_state = asked
                    /\ UpdatedWith(p, input).state_machine.state_frame = 1

\* Player p is the defender of no hit of the tick just made.
NotHitIn(log, p) == \A k \in 1..Len(log) : log[k].defender # p

\* A tick that runs leaves an entity in HeavyAttack that is not hit one frame
\* further in HeavyAttack, or in Idle after the 36th frame.
HeavyStep ==
    \A p \in 0..(entity_count - 1) :
        (/\ last_op' = "tick"
         /\ TickRuns(Engine)
         /\ entities[p].state_machine.current_state = "HeavyAttack"
         /\ NotHitIn(hit_log', p))
        => entities'[p].state_machine = OneFrameLater(entities[p].state_machine, 36)

\* C21: a newly pressed attack button changes an entity's state only if both stun
\* counters are 0 and its state is Idle or registered with can_cancel; an entity in
\* HeavyAttack stays there until its 36 frames are over whatever is pushed, unless
\* it is hit, and one in LightAttack or MediumAttack switches at once to a different
\* newly pressed attack.
C21_CancelGating ==
    [](ButtonsGated /\ HeavyLocked /\ LightMediumCancel) /\ [][HeavyStep]_vars

\* Player 1's light attack hit in the tick before; in this tick player 1 newly
\* pressed Heavy and its entity is in the first frame of HeavyAttack.
C21_Witness ==
    /\ last_op = "tick"
    /\ entity_count = 2
    /\ plan[0] = "mixup"
    /\ pushed[0][2].heavy
    /\ ~pushed[0][1].heavy
    /\ entities[0].state_machine.current_state = "HeavyAttack"
    /\ entities[0].state_machine.state_frame = 1
    /\ entities[1].health.current = 950
    /\ entities[1].hitstun_remaining = 7

\* The entity is stunned after the decrement step of its update.
StunnedAfterDecrement(e) ==
    StunTick(e).hitstun_remaining > 0 \/ StunTick(e).blockstun_remaining > 0

\* Entity e of player p after it blocked a hit of the default light attack.
BlockedLight(p, e) ==
    TakeHit(e, [attacker |-> entities[1 - p].id, defender |-> e.id,
                attack_data |-> AttackOf(StateLightAttack)], TRUE)

\* Entity e and what it is after each of up to k updates without an input buffer.
RECURSIVE UpdatedUpTo(_, _)
UpdatedUpTo(e, k) ==
    IF k = 0 THEN {e}
    ELSE {e} \cup UNION {UpdatedUpTo(next, k - 1) : next \in {EntityUpdate(e, <<>>)}}

\* The entity of player p as it is, and, when it is in hitstun, as it would be up to
\* 6 updates after blocking a further light attack: the 6 frames of blockstun end
\* before a longer hitstun and leave the entity in Idle with hitstun remaining.
StunCases(p) ==
    IF entities[p].hitstun_remaining > 0
    THEN UpdatedUpTo(BlockedLight(p, entities[p]), 6) \cup {entities[p]}
    ELSE {entities[p]}

\* A stick position alone or with one button.
StunInputs ==
    {input \in TriedInputs :
        \A b1, b2 \in {"light", "medium", "heavy", "special"} :
            input[b1] /\ input[b2] => b1 = b2}

\* The update of an entity stunned after the decrement is the update without input,
\* whatever the player pushes.
StunSuppressesInput ==
    \A p \in 0..(entity_count - 1) :
        \A e \in StunCases(p) :
            StunnedAfterDecrement(e) =>
                \E unheard \in {EntityUpdate(e, <<>>)} :
                    \A input \in StunInputs :
                        EntityUpdate(e, <<Push(input_manager[p], input)>>) = unheard

\* In a tick that runs, an entity stunned after the decrement and not hit has the
\* state machine its update without input gives.
StunStep ==
    \A p \in 0..(entity_count - 1) :
        (/\ last_op' = "tick"
         /\ TickRuns(Engine)
         /\ StunnedAfterDecrement(entities[p])
         /\ NotHitIn(hit_log', p))
        => entities'[p].state_machine = EntityUpdate(entities[p], <<>>).state_machine

\* C22: in a tick in which, after the decrement step of Entity::update, the hitstun
\* or the blockstun counter is above 0, the player's input (buttons, direction,
\* motion) causes no state transition of that entity.
C22_StunSuppressesInput == []StunSuppressesInput /\ [][StunStep]_vars

\* Player 2 was hit by a light attack two ticks ago and is pushing Forward while 6
\* frames of hitstun remain.
C22_Witness ==
    /\ last_op = "tick"
    /\ entity_count = 2
    /\ entities[1].hitstun_remaining = 6
    /\ entities[1].state_machine.current_state = "Hitstun"
    /\ entities[1].state_machine.state_frame = 2
    /\ pushed[1][2].direction = "Forward"

----------------------------------------------------------------------------
(* Properties of a hit defender's recovery, checked under SpecHit: the       *)
(* updates that follow a strike are computed from the state it leaves.       *)

\* The strike just made hit player p unblocked: take_hit's second branch ends in
\* Hitstun, the first in Blockstun.
JustHit(p) ==
    /\ last_op = "strike"
    /\ hit_log # <<>>
    /\ hit_log[Len(hit_log)].defender = p
    /\ hit_log[Len(hit_log)].after.current_state = "Hitstun"
    /\ entities[p].hitstun_remaining \in 1..18

\* Player p was not stunned when the strike just made reached it.
HitUnstunned(p) ==
    /\ hit_log[Len(hit_log)].before.hitstun_remaining = 0
    /\ hit_log[Len(hit_log)].before.blockstun_remaining = 0

\* Entity e with n frames of hitstun counts down over its next n updates: the counter
\* drops by 1 in each, the state is Hitstun after all but the last, and the last
\* leaves the entity in Idle, or in LightAttack when `buffer` has Light newly pressed.
RECURSIVE CountsDown(_, _, _)
CountsDown(e, n, buffer) ==
    IF n = 1
    THEN /\ EntityUpdate(e, <<>>).hitstun_remaining = 0
         /\ EntityUpdate(e, <<>>).state_machine.current_state = "Idle"
         /\ EntityUpdate(e, <<buffer>>).state_machine.current_state = "LightAttack"
    ELSE \E next \in {EntityUpdate(e, <<>>)} :
            /\ next.hitstun_remaining = n - 1
            /\ next.state_machine.current_state = "Hitstun"
            /\ CountsDown(next, n - 1, buffer)

\* C23 as stated: after a connected hit with hitstun N (1 <= N <= 18) and no further
\* hit, hitstun_remaining drops by 1 in each following tick, the defender is in
\* Hitstun at the end of the next N - 1 ticks, and in the N-th the counter reaches 0,
\* the defender is forced to Idle and its input is processed again.
C23_HitstunCountdown ==
    \A p \in 0..(entity_count - 1) :
        JustHit(p) =>
            CountsDown(entities[p], entities[p].hitstun_remaining,
                       Push(input_manager[p], Press("Light")))

\* The same for a defender that was not stunned when it was hit.
C23_CountdownFromUnstunned ==
    \A p \in 0..(entity_count - 1) :
        JustHit(p) /\ HitUnstunned(p) =>
            CountsDown(entities[p], entities[p].hitstun_remaining,
                       Push(input_manager[p], Press("Light")))

\* Player 2 blocked a light attack and was then hit by the heavy one: 6 frames of
\* blockstun run beside 18 of hitstun.
C23_Witness ==
    /\ last_op = "strike"
    /\ strikes = 2
    /\ Len(hit_log) = 1
    /\ hit_log[1].defender = 1
    /\ hit_log[1].before.blockstun_remaining = 6
    /\ entities[1].blockstun_remaining = 6
    /\ entities[1].hitstun_remaining = 18
    /\ entities[1].state_machine.current_state = "Hitstun"

\* Hit h was blocked: take_hit's first branch ends in Blockstun, the second in Hitstun.
WasBlocked(h) == h.after.current_state = "Blockstun"

\* A blockable and an unblockable attack.
TriedAttacks == {AttackOf(StateHeavyAttack), Unblockable(AttackOf(StateMediumAttack))}

\* The entity of player p after apply_hit of `attack`, with `direction` pushed for p
\* in this tick.
HitOn(p, direction, attack) ==
    LET eng == [Engine EXCEPT
                   !.input_manager =
                       UpdatePlayerInput(@, entities[p].player_id, Dir(direction))]
    IN ApplyHit(eng, [attacker |-> entities[1 - p].id, defender |-> entities[p].id,
                      attack_data |-> attack]).entities[p]

\* Whatever state, stun counters and grounded flag the defender has, the hit is blocked
\* exactly when the direction pushed for it in this tick is a back direction and the
\* attack can be blocked.
BlockDecision ==
    \A p \in 0..(entity_count - 1), direction \in Directions, attack \in TriedAttacks :
        \E e \in {HitOn(p, direction, attack)} :
            IF direction \in BackDirections /\ attack.can_block
            THEN /\ e.state_machine.current_state = "Blockstun"
                 /\ e.blockstun_remaining = attack.blockstun
                 /\ e.health = entities[p].health
            ELSE /\ e.state_machine.current_state = "Hitstun"
                 /\ e.hitstun_remaining = attack.hitstun

Overlaps(cs, a, d) ==
    \E i \in 1..Len(cs.hitboxes), j \in 1..Len(cs.hurtboxes) :
        /\ cs.hitboxes[i].owner = entities[a].id
        /\ cs.hurtboxes[j].owner = entities[d].id
        /\ cs.hitboxes[i].active
        /\ cs.hurtboxes[j].active
        /\ Intersects(cs.hitboxes[i].bounds, cs.hurtboxes[j].bounds)

\* A tick in which each player's hitbox overlaps the other's hurtbox applies both
\* hits: each player is the defender of a hit of the other, loses that hit's damage
\* and ends the tick in Hitstun with that hit's hitstun.
TradeStep ==
    (/\ last_op' = "tick"
     /\ TickRuns(Engine)
     /\ entity_count = 2
     /\ Overlaps(collision_system', 0, 1)
     /\ Overlaps(collision_system', 1, 0))
    => \A p \in 0..1 :
          \E k \in 1..Len(hit_log') :
             LET h == hit_log'[k]
             IN /\ h.defender = entities[p].id
                /\ h.attacker = entities[1 - p].id
                /\ entities'[p].health.current
                      = Max(0, entities[p].health.current - h.attack_data.damage)
                /\ entities'[p].hitstun_remaining = h.attack_data.hitstun
                /\ entities'[p].state_machine.current_state = "Hitstun"

\* C25: if in one tick player 1's active hitbox strictly overlaps player 2's hurtbox
\* and player 2's active hitbox strictly overlaps player 1's hurtbox, both hits are
\* applied in that tick: the hit resolved first does not cancel the other, and
\* neither roster position has priority.
C25_Trade == [][TradeStep]_vars

\* The heavy attacks of both players have just hit each other for the first time:
\* player 2, hit first, is in Hitstun and its own hit took 200 from player 1.
C25_Witness ==
    /\ last_op = "tick"
    /\ Len(hit_log) = 2
    /\ hit_log[1].attacker = 0 /\ hit_log[1].defender = 1
    /\ hit_log[2].attacker = 1 /\ hit_log[2].defender = 0
    /\ hit_log[1].after.current_state = "Hitstun"
    /\ hit_log[2].before.health = 1000
    /\ hit_log[2].after.health = 800
    /\ entities[0].hitstun_remaining = 18
    /\ entities[1].hitstun_remaining = 18
    /\ entities[0].health.current = 800
    /\ entities[1].health.current = 800
    /\ Overlaps(collision_system, 0, 1)
    /\ Overlaps(collision_system, 1, 0)

\* Exactly one of the two players is out of health.
OneDown ==
    /\ entity_count = 2
    /\ (entities[0].health.current = 0) # (entities[1].health.current = 0)

\* The result turns to Draw only in a tick that both players start with health above 0
\* and end with health 0.
DrawStep ==
    (game_result' = "Draw" /\ game_result # "Draw")
    => /\ last_op' = "tick"
       /\ entity_count = 2
       /\ \A p \in 0..1 : entities[p].health.current > 0 /\ entities'[p].health.current = 0

\* With one player alone out of health, a tick changes neither the healths nor the
\* result, which is the other player's win.
KnockoutStays ==
    (OneDown /\ last_op' = "tick")
    => /\ game_result = (IF entities[0].health.current = 0 THEN "Player2Wins"
                         ELSE "Player1Wins")
       /\ game_result' = game_result
       /\ entities' = entities

\* C26: game_result becomes Draw only through a single tick at whose start both
\* players have health above 0 and at whose end both have health 0; a player whose
\* health reached 0 in an earlier tick than the opponent's is never part of a Draw.
C26_DrawOnlyAtOnce ==
    /\ [](game_result = "Draw" => ~OneDown)
    /\ [][DrawStep]_vars
    /\ [][KnockoutStays]_vars

\* The tick of a double knockout: both players went from 200 to 0.
C26_Witness ==
    /\ last_op = "tick"
    /\ game_result = "Draw"
    /\ Len(hit_log) = 2
    /\ \A k \in 1..2 : hit_log[k].before.health = 200
    /\ \A p \in 0..1 : entities[p].health.current = 0

\* Some sequences of one to three of the light and the heavy attack.
AttackRuns ==
    LET l == AttackOf(StateLightAttack)
        h == AttackOf(StateHeavyAttack)
    IN {<<h>>, <<l, h>>, <<h, l>>, <<l, l, l>>, <<h, l, h>>}

\* The sum of f over the elements of seq.
RECURSIVE SumOf(_, _, _)
SumOf(seq, f(_), k) == IF k > Len(seq) THEN 0 ELSE f(seq[k]) + SumOf(seq, f, k + 1)

Damage(a) == a.damage

PushbackX(a) == a.pushback_x

PushbackY(a) == a.pushback_y

\* The engine with, in its collision system, the hurtbox of player p and over it one
\* hitbox of the other player for each attack of `run`, in that order.
Stacked(p, run) ==
    LET hurtboxes == GetHurtboxes(entities[p])
        hitboxes == [i \in 1..Len(run) |->
                        CollisionBoxHitbox(entities[1 - p].id, hurtboxes[1].bounds, run[i])]
    IN [Engine EXCEPT !.collision_system =
           AddHurtboxes(AddHitboxes(Clear(collision_system), hitboxes, 1), hurtboxes, 1)]

\* Entity e after take_hit, unblocked, of the attacks run[k..] one after the other.
RECURSIVE HitInTurn(_, _, _)
HitInTurn(e, run, k) ==
    IF k > Len(run) THEN e
    ELSE HitInTurn(TakeHit(e, [attacker |-> 1 - e.id, defender |-> e.id,
                               attack_data |-> run[k]], FALSE), run, k + 1)

\* C27: resolve_hits applies every collision result of the tick, in result order,
\* without deduplication: when k results name the same defender and none is
\* blocked, its health drops by the sum of the k damages, clamped at 0, and its
\* momentum receives all k pushbacks.
C27_NoDeduplication ==
    \A p \in 0..(entity_count - 1) :
        ~IsBlocking(Engine, p) =>
            \A run \in AttackRuns :
                \E eng \in {Stacked(p, run)} :
                    \E results \in {CheckCollisions(eng.collision_system)},
                       after \in {ResolveHits(eng)} :
                        /\ Len(results) = Len(run)
                        /\ \A i \in 1..Len(run) :
                              /\ results[i].attack_data = run[i]
                              /\ results[i].defender = entities[p].id
                        /\ after.entities[p] = HitInTurn(entities[p], run, 1)
                        /\ after.entities[p].health.current
                              = Max(0, entities[p].health.current - SumOf(run, Damage, 1))
                        /\ after.entities[p].physics.momentum.x
                              = entities[p].physics.momentum.x
                                + SumOf(run, PushbackX, 1) * (-Sign(entities[p].facing))
                        /\ after.entities[p].physics.momentum.y
                              = entities[p].physics.momentum.y + SumOf(run, PushbackY, 1)
                        /\ after.entities[1 - p] = entities[1 - p]

\* Player 2, still moving from a hit and with 400 health left, would lose it all to
\* a heavy, a light and a heavy hit in one tick, the last one clamped.
C27_Witness ==
    /\ last_op = "tick"
    /\ entity_count = 2
    /\ entities[1].health.current = 400
    /\ entities[1].physics.momentum.x # 0
    /\ ~IsBlocking(Engine, 1)
    /\ LET run == <<AttackOf(StateHeavyAttack), AttackOf(StateLightAttack),
                    AttackOf(StateHeavyAttack)>>
       IN /\ ResolveHits(Stacked(1, run)).entities[1].health.current = 0
          /\ HitLogOf(Stacked(1, run))[3].before.health = 150

----------------------------------------------------------------------------
(* The results of check_collisions, checked under SpecCol on the collision   *)
(* system built and, before it is filled, on copies of it with one box       *)
(* switched off or disarmed.                                                 *)

\* cs as it is and, while it holds no more than the boxes added one by one, with its
\* first hitbox or its first hurtbox inactive and with its first hitbox carrying no
\* attack data.
Disabled(cs) ==
    {cs}
    \cup (IF Len(cs.hitboxes) \in 1..MaxFreeBoxes /\ Len(cs.hurtboxes) <= MaxFreeBoxes
          THEN {[cs EXCEPT !.hitboxes[1].active = FALSE],
                [cs EXCEPT !.hitboxes[1].attack_data = NoAttack]}
          ELSE {})
    \cup (IF Len(cs.hurtboxes) \in 1..MaxFreeBoxes /\ Len(cs.hitboxes) <= MaxFreeBoxes
          THEN {[cs EXCEPT !.hurtboxes[1].active = FALSE]}
          ELSE {})

\* The pair q = <<hitbox index, hurtbox index>> of cs has both boxes active, of
\* different owners, with rectangles that strictly intersect, and a hitbox carrying
\* attack data.
Eligible(cs, q) ==
    /\ cs.hitboxes[q[1]].active
    /\ cs.hurtboxes[q[2]].active
    /\ cs.hitboxes[q[1]].owner # cs.hurtboxes[q[2]].owner
    /\ InteriorsMeet(cs.hitboxes[q[1]].bounds, cs.hurtboxes[q[2]].bounds)
    /\ cs.hitboxes[q[1]].attack_data # NoAttack

\* The eligible pairs of cs, by hitbox index first and hurtbox index second.
EligibleInOrder(cs) ==
    LET m == Len(cs.hurtboxes)
        pairs == [k \in 1..(Len(cs.hitboxes) * m) |->
                     <<((k - 1) \div m) + 1, ((k - 1) % m) + 1>>]
    IN SelectSeq(pairs, LAMBDA q : Eligible(cs, q))

\* check_collisions(cs) has one result for each of the first `cap` eligible pairs, in
\* their order and made of that pair, and nothing else.
OneResultPerPair(cs, cap) ==
    \E results \in {CheckCollisions(cs)}, pairs \in {EligibleInOrder(cs)} :
        /\ Len(results) = Min(Len(pairs), cap)
        /\ \A k \in 1..Min(Len(pairs), cap) :
              results[k] = [attacker |-> cs.hitboxes[pairs[k][1]].owner,
                            defender |-> cs.hurtboxes[pairs[k][2]].owner,
                            attack_data |-> cs.hitboxes[pairs[k][1]].attack_data[1]]

\* C28 as stated: check_collisions returns exactly one result for each pair of an
\* active hitbox carrying attack data and an active hurtbox of another owner whose
\* rectangles strictly intersect, and no other result, ordered by hitbox index first
\* and hurtbox index second.
C28_OneResultPerPair ==
    \A cs \in Disabled(ucs) : OneResultPerPair(cs, MAX_HITBOXES * MAX_HURTBOXES)

\* C28, amended: the same for the first 16 such pairs in that order; the pairs after
\* them have no result.
C28_OneResultPerPairUpTo16 ==
    [](\A cs \in Disabled(ucs) : OneResultPerPair(cs, MAX_COLLISIONS_PER_FRAME))

\* Two hitboxes of one owner over a hurtbox of the other: two results, and one when
\* the first hitbox is inactive or carries no attack data.
C28_Witness ==
    /\ Len(ucs.hitboxes) = 2
    /\ Len(ucs.hurtboxes) = 1
    /\ Len(CheckCollisions(ucs)) = 2
    /\ CheckCollisions(ucs)[1].attack_data # CheckCollisions(ucs)[2].attack_data
    /\ Len(CheckCollisions([ucs EXCEPT !.hitboxes[1].active = FALSE])) = 1
    /\ Len(CheckCollisions([ucs EXCEPT !.hitboxes[1].attack_data = NoAttack])) = 1
    /\ CheckCollisions([ucs EXCEPT !.hurtboxes[1].active = FALSE]) = <<>>

----------------------------------------------------------------------------
(* Facing, checked under Spec *)

\* The facings of `after` follow its x positions: the player with the smaller x faces
\* Right and the other Left, and at equal x both face as in `before`.
FacingFollows(before, after) ==
    LET x1 == after[0].physics.position.x
        x2 == after[1].physics.position.x
    IN /\ x1 < x2 => after[0].facing = "Right" /\ after[1].facing = "Left"
       /\ x1 > x2 => after[0].facing = "Left" /\ after[1].facing = "Right"
       /\ x1 = x2 => after[0].facing = before[0].facing /\ after[1].facing = before[1].facing

\* The distances from player 1 at which player 2 is put to try update_facing: level,
\* a walking step and a hurtbox width on either side.
FacingOffsets == {-10000, -300, 0, 300, 10000}

\* The engine with player 2 moved to player 1's x plus d.
Offset(d) ==
    [Engine EXCEPT !.entities[1].physics.position.x = entities[0].physics.position.x + d]

\* update_facing gives facings that follow the positions, also with the players
\* level or on the other side of each other.
FacingUpdated ==
    entity_count = 2 =>
        \A d \in FacingOffsets :
            /\ FacingFollows(Offset(d).entities, UpdateFacing(Offset(d)).entities)
            /\ UpdateFacing(Offset(d)).entities[0].facing
                  # UpdateFacing(Offset(d)).entities[1].facing

\* A tick that runs ends with facings that follow the positions.
FacingStep ==
    (last_op' = "tick" /\ TickRuns(Engine) /\ entity_count = 2)
        => FacingFollows(entities, entities')

\* C29: at the end of every executed tick, if the x positions differ the player with
\* the smaller x faces Right and the other Left, and if they are equal both keep
\* their facing; so the two players face opposite ways in every reachable state.
C29_FacingFollowsPosition ==
    /\ [](entity_count = 2 => entities[0].facing # entities[1].facing)
    /\ []FacingUpdated
    /\ [][FacingStep]_vars

\* Player 2 has just been pushed away by a hit, still faces player 1, and would go
\* on facing left with player 1 at its own x.
C29_Witness ==
    /\ last_op = "tick"
    /\ entity_count = 2
    /\ Len(hit_log) = 1
    /\ hit_log[1].defender = 1
    /\ entities[1].physics.momentum.x > 0
    /\ entities[0].physics.position.x < entities[1].physics.position.x
    /\ entities[0].facing = "Right"
    /\ entities[1].facing = "Left"
    /\ UpdateFacing(Offset(0)).entities[1].facing = "Left"
    /\ UpdateFacing(Offset(-300)).entities[1].facing = "Right"

----------------------------------------------------------------------------
(* The detection window, checked under SpecBuf: the frames that follow a     *)
(* motion are pushed onto the buffer the motion has just completed on.       *)

\* Buffer b after `count` more pushes that alternate the directions d1 and d2.
RECURSIVE PushAlternating(_, _, _, _)
PushAlternating(b, d1, d2, count) ==
    IF count = 0 THEN b ELSE PushAlternating(Push(b, Dir(d1)), d2, d1, count - 1)

\* What is pushed after the motion: one direction held, or two directions in turn.
Fillers ==
    {<<d, d>> : d \in {"Down", "DownForward", "Forward", "Back"}}
    \cup {<<"Down", "DownForward">>, <<"DownForward", "Forward">>, <<"Forward", "Down">>}

\* detect_qcf on buffer b, on which the motion was completed `since` pushes ago, is
\* true up to the 14th push after the motion and false from the 15th to the `last`,
\* with filler f pushed.
RECURSIVE WindowFrom(_, _, _, _)
WindowFrom(b, f, since, last) ==
    /\ DetectQcf(b) <=> (since < MOTION_DETECTION_WINDOW)
    /\ since < last => WindowFrom(Push(b, Dir(f[1])), <<f[2], f[1]>>, since + 1, last)

\* The motion is in the history with its last push at most 14 pushes back.
InWindow ==
    \E back \in 0..(MOTION_DETECTION_WINDOW - 1) :
        Len(uhist) - back >= 3 /\ QcfAt(Len(uhist) - back - 2)

\* C30: once Down, DownForward, Forward were pushed on three consecutive ticks,
\* detect_qcf is true on the completing tick and on each of the next 14 ticks
\* whatever is pushed, and false from the 15th following tick on unless the motion
\* is entered again.
C30_DetectionWindow ==
    /\ DetectQcf(ubuf) <=> InWindow
    /\ (Len(uhist) >= 3 /\ QcfAt(Len(uhist) - 2)) =>
          /\ \A f \in Fillers : WindowFrom(ubuf, f, 0, MOTION_DETECTION_WINDOW + 3)
          /\ WindowFrom(ubuf, <<"Neutral", "Neutral">>, 0, INPUT_BUFFER_SIZE + 2)
          /\ DetectQcf(Push(Push(Push(PushAlternating(ubuf, "Neutral", "Neutral",
                                                     MOTION_DETECTION_WINDOW),
                                      Dir("Down")), Dir("DownForward")), Dir("Forward")))

\* The motion was completed two pushes ago, across the end of the ring, and is still
\* detected; it will be after 12 more neutral frames and not after 13.
C30_Witness ==
    LET n == Len(uhist)
    IN /\ n = INPUT_BUFFER_SIZE + 3
       /\ QcfAt(n - 4)
       /\ uhist[n - 1].direction = "Neutral"
       /\ uhist[n].direction = "Down"
       /\ DetectQcf(ubuf)
       /\ DetectQcf(PushAlternating(ubuf, "Neutral", "Neutral", 12))
       /\ ~DetectQcf(PushAlternating(ubuf, "Neutral", "Neutral", 13))

----------------------------------------------------------------------------
(* Properties of the order of the roster, checked under Spec *)

\* The roster indices from the last to the first.
ReverseOrder(eng) == [k \in 1..eng.entity_count |-> eng.entity_count - k]

\* The tick of engine.rs:65-91 with the loops of update_entities and
\* detect_collisions walking the roster in `order`.
TickInOrder(eng, order, p1_input, p2_input) ==
    LET im1 == UpdatePlayerInput(eng.input_manager, 0, p1_input)
        im2 == UpdatePlayerInput(im1, 1, p2_input)
        e2 == UpdateEntitiesIn([eng EXCEPT !.input_manager = im2], order, 1)
        e3 == [e2 EXCEPT !.collision_system =
                  GatherBoxes(Clear(e2.collision_system), e2, order, 1)]
    IN TickFinish(e3)

\* A tick that runs leaves the entities (position, health, state, stun counters,
\* facing) and the result as the same tick walking the roster backwards would.
OrderStep ==
    (last_op' = "tick" /\ TickRuns(Engine))
    => \E other \in {TickInOrder(Engine, ReverseOrder(Engine),
                                 pushed'[0][2], pushed'[1][2])} :
          /\ other.entities = entities'
          /\ other.game_result = game_result'
          /\ other.frame = frame'
          /\ other.input_manager = input_manager'

\* C31: updating player 2 before player 1, and gathering their boxes in that order,
\* yields the same end-of-tick positions, health, states, stun counters, facing and
\* result as the implemented order.
C31_OrderIndependent == [][OrderStep]_vars

\* Both players have just hit each other a second time; the boxes were gathered
\* with player 1's first, and walking the roster backwards gathers player 2's first.
C31_Witness ==
    /\ last_op = "tick"
    /\ Len(hit_log) = 2
    /\ hit_log[1].defender = 1 /\ hit_log[2].defender = 0
    /\ Len(collision_system.hitboxes) = 2
    /\ collision_system.hitboxes[1].owner = 0
    /\ collision_system.hurtboxes[1].owner = 0
    /\ GatherBoxes(Clear(collision_system), Engine, ReverseOrder(Engine), 1).hurtboxes[1].owner
          = 1
    /\ entities[0].health.current = 600
    /\ entities[1].health.current = 600

----------------------------------------------------------------------------
(* Properties of what changes a player's health, checked under Spec *)

AttackStates == {"LightAttack", "MediumAttack", "HeavyAttack"}

\* The inputs among those tried that press no button player p does not hold already.
HeldInputs(p) ==
    {input \in TriedInputs :
        \A b \in Buttons :
            ButtonPressed(input, b) => ButtonPressed(Current(input_manager[p]), b)}

\* Without a newly pressed button an update starts no attack: an entity in an attack
\* state after it was in that state before.
NoPressNoAttack ==
    \A p \in 0..(entity_count - 1) : \A input \in HeldInputs(p) :
        \E updated \in {UpdatedWith(p, input)} :
            updated.state_machine.current_state \in AttackStates
            => /\ entities[p].state_machine.current_state
                    = updated.state_machine.current_state
               /\ updated.state_machine.state_frame
                    = entities[p].state_machine.state_frame + 1

\* A match starts with nobody attacking, the opponent of a player that never touches
\* the controls keeps its full health, and a blocked hit would leave health as it is.
NoAttackNoDamage ==
    /\ last_op = "init_match"
       => \A p \in 0..1 : entities[p].state_machine.current_state = "Idle"
    /\ \A p \in 0..(entity_count - 1) :
          /\ plan[1 - p] = "stand" => entities[p].health.current = 1000
          /\ HitOn(p, "Back", AttackOf(StateLightAttack)).health = entities[p].health

\* In a tick, health changes only for the defender of a hit that is not blocked; the
\* attacker of a hit was in the attack's state before the tick; and an entity enters
\* an attack state only as its player newly presses that attack's button.
HealthStep ==
    last_op' = "tick"
    => \A p \in 0..(entity_count - 1) :
          /\ entities'[p].health # entities[p].health
             => \E k \in 1..Len(hit_log') :
                   /\ hit_log'[k].defender = entities[p].id
                   /\ ~WasBlocked(hit_log'[k])
                   /\ hit_log'[k].attack_data.damage > 0
          /\ \A k \in 1..Len(hit_log') :
                hit_log'[k].attacker = entities[p].id
                => /\ entities[p].state_machine.current_state \in AttackStates
                   /\ hit_log'[k].defender # entities[p].id
          /\ (/\ entities'[p].state_machine.current_state \in AttackStates
              /\ entities'[p].state_machine.current_state
                    # entities[p].state_machine.current_state)
             => AttackPressed(pushed'[p][1], pushed'[p][2])
                   = entities'[p].state_machine.current_state

----------------------------------------------------------------------------
(* Properties of blocked hits, checked under SpecHit *)

\* Every hit of the last resolution that ended in Blockstun left the defender's
\* health as it found it.
BlockedKeepsHealth ==
    \A k \in 1..Len(hit_log) :
        WasBlocked(hit_log[k]) => hit_log[k].after.health = hit_log[k].before.health

\* A resolution in which every hit can be blocked and finds its defender holding
\* back changes nobody's health.
BlockStep ==
    (/\ last_op' = "strike"
     /\ \A k \in 1..Len(hit_log') :
           /\ hit_log'[k].attack_data.can_block
           /\ pushed'[hit_log'[k].defender][2].direction \in BackDirections)
    => \A p \in 0..(entity_count - 1) : entities'[p].health = entities[p].health

----------------------------------------------------------------------------
(* Properties of the stun counters and the stun states, checked under SpecHit *)

\* Entity e's counters agree with its state: hitstun runs in Hitstun only and
\* blockstun in Blockstun only.
Coupled(e) ==
    /\ e.hitstun_remaining > 0 => e.state_machine.current_state = "Hitstun"
    /\ e.blockstun_remaining > 0 => e.state_machine.current_state = "Blockstun"

\* C34 as stated: for every entity, hitstun_remaining > 0 implies its state is
\* Hitstun and blockstun_remaining > 0 implies its state is Blockstun, so the two
\* counters are never both positive.
C34_StunCoupled ==
    \A p \in 0..(entity_count - 1) :
        /\ Coupled(entities[p])
        /\ ~(entities[p].hitstun_remaining > 0 /\ entities[p].blockstun_remaining > 0)

\* Player 2 blocked a light attack and was then hit by an unblockable one: both
\* counters run, the state is Hitstun, and six updates later it is Idle with 6 frames
\* of hitstun left.
C34_Witness ==
    /\ last_op = "strike"
    /\ strikes = 2
    /\ entities[1].blockstun_remaining = 6
    /\ entities[1].hitstun_remaining = 12
    /\ entities[1].state_machine.current_state = "Hitstun"
    /\ \E later \in UpdatedUpTo(entities[1], 6) :
          /\ later.blockstun_remaining = 0
          /\ later.hitstun_remaining = 6
          /\ later.state_machine.current_state = "Idle"

----------------------------------------------------------------------------
(* Properties of one activation of an attack, checked under Spec *)

\* The frame of the attack state `id` that carries its hitbox.
HitFrame(id) ==
    CASE id = "LightAttack" -> 5
      [] id = "MediumAttack" -> 8
      [] id = "HeavyAttack" -> 12

\* The attack state `id` as register_default_states registers it.
AttackStateOf(id) ==
    CASE id = "LightAttack" -> StateLightAttack
      [] id = "MediumAttack" -> StateMediumAttack
      [] id = "HeavyAttack" -> StateHeavyAttack

\* The hits of log whose attacker is player p.
HitsBy(log, p) == {k \in 1..Len(log) : log[k].attacker = entities[p].id}

\* In a tick that runs, with `updated` the engine after the update phase: player p
\* has a hitbox, one, exactly when its state frame has reached the hit frame of its
\* attack; within an attack the state frame counts up by one per tick, from 1 in the
\* tick that starts it; and the opponent loses health only by the hit of that
\* hitbox, at most the attack's damage.
ActivationOf(p, updated) ==
    LET sm == updated.entities[p].state_machine
        before == entities[p].state_machine
        boxes == GetHitboxes(updated.entities[p])
        placed == SelectSeq(collision_system'.hitboxes,
                            LAMBDA box : box.owner = entities[p].id)
        lost == entities[1 - p].health.current - entities'[1 - p].health.current
    IN /\ placed = boxes
       /\ Len(boxes) <= 1
       /\ boxes # <<>> <=> /\ sm.current_state \in AttackStates
                           /\ sm.state_frame = HitFrame(sm.current_state)
       /\ sm.current_state \in AttackStates
          => sm.state_frame = IF before.current_state = sm.current_state
                              THEN before.state_frame + 1
                              ELSE 1
       /\ Cardinality(HitsBy(hit_log', p)) <= Len(boxes)
       /\ IF HitsBy(hit_log', p) = {} THEN lost = 0
          ELSE /\ lost >= 0
               /\ lost <= AttackOf(AttackStateOf(sm.current_state)).damage
               /\ \A k \in HitsBy(hit_log', p) :
                     hit_log'[k].attack_data = boxes[1].attack_data[1]

ActivationStep ==
    (last_op' = "tick" /\ TickRuns(Engine) /\ entity_count = 2)
    => \E updated \in {TickUpdated(Engine, pushed'[0][2], pushed'[1][2])} :
          \A p \in 0..1 : ActivationOf(p, updated)

\* Whether a player leaves the controls alone, pushes forward or presses an attack
\* button, its updated entity has a hitbox exactly at the hit frame of its attack, and
\* an attack it was in before the update is one frame further.
ActivationOnAnyInput ==
    \A p \in 0..(entity_count - 1),
       input \in {NeutralInput, Dir("Forward")} \cup {Press(b) : b \in AttackButtons} :
        \E updated \in {UpdatedWith(p, input)} :
            LET sm == updated.state_machine
                before == entities[p].state_machine
            IN /\ GetHitboxes(updated) # <<>>
                  <=> /\ sm.current_state \in AttackStates
                      /\ sm.state_frame = HitFrame(sm.current_state)
               /\ sm.current_state \in AttackStates
                  => sm.state_frame = IF before.current_state = sm.current_state
                                      THEN before.state_frame + 1
                                      ELSE 1

\* C35: between an entity entering LightAttack, MediumAttack or HeavyAttack and
\* leaving that state, its hitbox is placed in the collision system in at most one
\* tick, the one in which state_frame reaches the hitbox frame 5, 8 or 12, so one
\* activation reduces the opponent's health at most once and by at most the
\* attack's damage.
C35_OneHitPerActivation == []ActivationOnAnyInput /\ [][ActivationStep]_vars

\* Player 1's heavy attack hit 200 off player 2 six ticks ago, is still running, at
\* frame 18, and has placed no hitbox since: player 2 is at 800.
C35_Witness ==
    /\ last_op = "tick"
    /\ entity_count = 2
    /\ plan[1] = "stand"
    /\ entities[0].state_machine.current_state = "HeavyAttack"
    /\ entities[0].state_machine.state_frame = 18
    /\ entities[1].health.current = 800
    /\ entities[1].hitstun_remaining = 12
    /\ collision_system.hitboxes = <<>>
    /\ hit_log = <<>>

----------------------------------------------------------------------------
(* The entity and its buffer once the player lets go of the controls: after a *)
(* few frames of free input every further frame is neutral. The frames at     *)
(* rest are counted in ulog and never stop before MaxRest of them were played. *)

MaxRestPushes == 3
MaxRest == 40

RestPush ==
    /\ ulog.op # "rest"
    /\ Len(uhist) < MaxRestPushes
    /\ \E input \in BufInputs : BufFrame(input)

BufRest ==
    /\ ulog.op = "rest" => ulog.arg < MaxRest
    /\ \E b \in {Push(ubuf, NeutralInput)} :
          /\ ubuf' = b
          /\ uent' = EntityUpdate(uent, <<b>>)
    /\ uhist' = Append(uhist, NeutralInput)
    /\ ulog' = [op |-> "rest", arg |-> IF ulog.op = "rest" THEN ulog.arg + 1 ELSE 1]
    /\ UNCHANGED <<engineVars, histVars, umode, strikes, usm, utarget, usince, ucs,
                   uphys, ucnt>>

NextRest == RestPush \/ BufRest

\* The step of the rest counter that BufRest, and no other action, makes.
RestTick ==
    /\ ulog.op = "rest" => ulog.arg < MaxRest
    /\ ulog' = [op |-> "rest", arg |-> IF ulog.op = "rest" THEN ulog.arg + 1 ELSE 1]

\* The host keeps ticking: the frames at rest are played.
SpecRest == InitBuf /\ [][NextRest]_vars /\ WF_ulog(RestTick)

----------------------------------------------------------------------------
(* Properties of the entity at rest, checked under SpecRest *)

\* The rest has lasted MaxRest frames, more than any registered state (36 frames at
\* most) or stun of the default attacks lasts.
Rested == ulog = [op |-> "rest", arg |-> MaxRest]

\* C36 as stated, for a rest of MaxRest frames: from any reachable state, with only
\* neutral input from then on, the entity's state has become Idle.
C36_IdleAfterRest == Rested => uent.state_machine.current_state = "Idle"

\* What holds instead: the entity ends up in Idle or in SpecialMove and stays there.
C36_IdleOrSpecialMove ==
    <>[](uent.state_machine.current_state \in {"Idle", "SpecialMove"})

\* A quarter circle forward ending with Special, then MaxRest neutral frames: the
\* entity is in SpecialMove, at frame MaxRest + 1 of it.
C36_Witness ==
    /\ Rested
    /\ SubSeq(uhist, 1, 3)
          = <<Dir("Down"), Dir("DownForward"),
              InputState("Forward", FALSE, FALSE, FALSE, TRUE)>>
    /\ uent.state_machine.current_state = "SpecialMove"
    /\ uent.state_machine.state_frame = MaxRest + 1
    /\ FindState(uent.state_machine, "SpecialMove") = 0

----------------------------------------------------------------------------
(* Properties of a launched entity, checked under Spec *)

\* The physics of player p has come to rest: an update changes nothing in it.
AtRest(p) == PhysicsUpdate(entities[p].physics) = entities[p].physics

\* C37 as stated, at the states in which the physics has come to rest: an entity that
\* was launched and receives no further hit becomes grounded again, with
\* position.y = 0 and on_ground true.
C37_LaunchedLands ==
    \A p \in 0..(entity_count - 1) :
        AtRest(p) => /\ entities[p].physics.on_ground
                     /\ entities[p].physics.position.y = 0

\* Player 2, launched by one heavy attack and not hit since, is Idle and at rest in
\* the air: no momentum or velocity is left, and gravity, added to a velocity that
\* every update resets, has moved nothing.
C37_Witness ==
    /\ last_op = "tick"
    /\ entity_count = 2
    /\ plan[1] = "stand"
    /\ entities[1].health.current = 800
    /\ entities[1].hitstun_remaining = 0
    /\ entities[1].state_machine.current_state = "Idle"
    /\ ~entities[1].physics.on_ground
    /\ entities[1].physics.position.y < 0
    /\ entities[1].physics.momentum = Vec2Zero
    /\ entities[1].physics.velocity = Vec2Zero
    /\ AtRest(1)
    /\ UpdatedWith(1, NeutralInput).physics = entities[1].physics

----------------------------------------------------------------------------
(* C38: init_match on a used engine against a fresh engine *)

\* What a host can observe of an engine after a tick.
Observed(eng) ==
    [frame |-> eng.frame,
     entities |-> eng.entities,
     entity_count |-> eng.entity_count,
     game_result |-> eng.game_result]

FreshMatch == EngineInitMatch(EngineNew)

FirstInputs == {NeutralInput, Dir("Forward")} \cup {Press(b) : b \in AttackButtons}

\* C38: right after init_match, whatever the engine has executed before, the
\* first tick gives the same frame, entities and result as the first tick of a
\* newly constructed and initialised engine given the same inputs.
C38_RematchAsFresh ==
    last_op = "init_match" =>
        \A p1_input \in FirstInputs :
            \A p2_input \in FirstInputs :
                Observed(EngineTick(Engine, p1_input, p2_input))
                    = Observed(EngineTick(FreshMatch, p1_input, p2_input))

\* Reached: a rematch asked for while player 1 holds Heavy; the engine equals a
\* fresh one in everything but the input manager, and pressing Heavy in the first
\* tick starts the attack on a fresh engine and leaves player 1 idle here.
C38_Witness ==
    /\ last_op = "init_match"
    /\ inits = 2
    /\ Observed(Engine) = Observed(FreshMatch)
    /\ Current(input_manager[0]).heavy
    /\ EngineTick(FreshMatch, Press("Heavy"), NeutralInput)
           .entities[0].state_machine.current_state = "HeavyAttack"
    /\ EngineTick(Engine, Press("Heavy"), NeutralInput)
           .entities[0].state_machine.current_state = "Idle"

----------------------------------------------------------------------------
(* C39: the match seen from the other side *)

\* Matches whose players walk into close range before they attack, as the
\* approach loops of tests/naive_movement_tests.rs do.
MirrorScripts == {"stand", "closeLight", "closeHeavy"}

InitMirror ==
    /\ InitBase
    /\ plan \in [0..1 -> MirrorScripts]
    /\ umode = "stick"

SpecMirror == InitMirror /\ [][Next]_vars

FlipFacing(facing) == IF facing = "Left" THEN "Right" ELSE "Left"

MirrorVec(v) == Vec2(-v.x, v.y)

\* An entity in the other role: ids exchanged, x negated, facing flipped.
MirrorEntity(e) ==
    [e EXCEPT !.id = 1 - @,
              !.player_id = 1 - @,
              !.facing = FlipFacing(@),
              !.physics.position = MirrorVec(@),
              !.physics.velocity = MirrorVec(@),
              !.physics.momentum = MirrorVec(@)]

MirrorResult(r) ==
    CASE r = "Player1Wins" -> "Player2Wins"
      [] r = "Player2Wins" -> "Player1Wins"
      [] OTHER -> r

\* The mirror image of a two-player engine, input histories exchanged as well.
MirrorEngine(eng) ==
    [eng EXCEPT !.entities = [i \in 0..1 |-> MirrorEntity(eng.entities[1 - i])],
                !.input_manager =
                    [p \in DOMAIN eng.input_manager |->
                        IF p \in 0..1
                        THEN [eng.input_manager[1 - p] EXCEPT !.facing = FlipFacing(@)]
                        ELSE eng.input_manager[p]],
                !.game_result = MirrorResult(@)]

\* C39: the coming tick of the match, mirrored, is the coming tick of the
\* mirrored match with the two players' inputs swapped: same healths, states
\* and stun, x positions negated, facings flipped, result mirrored.
C39_MirrorSymmetry ==
    entity_count = 2 =>
        \E p1_input \in {ScriptInput(plan[0], 0)} :
            \E p2_input \in {ScriptInput(plan[1], 1)} :
                Observed(MirrorEngine(EngineTick(Engine, p1_input, p2_input)))
                    = Observed(EngineTick(MirrorEngine(Engine), p2_input, p1_input))

\* Reached: both players play the same script and stand 11800 apart, symmetric
\* about the origin, both one frame before the hit frame of their light attack;
\* the coming tick takes 50 from player 2 and nothing from player 1, in the match
\* and in its mirror image alike.
C39_Witness ==
    /\ entity_count = 2
    /\ plan = [p \in 0..1 |-> "closeLight"]
    /\ game_result = "InProgress"
    /\ Observed(MirrorEngine(Engine)) = Observed(Engine)
    /\ entities[1].physics.position.x - entities[0].physics.position.x = 11800
    /\ \A p \in 0..1 :
          /\ entities[p].state_machine.current_state = "LightAttack"
          /\ entities[p].state_machine.state_frame = HitFrame("LightAttack") - 1
          /\ entities[p].health.current = 1000
    /\ \A after \in {EngineTick(Engine, ScriptInput(plan[0], 0), ScriptInput(plan[1], 1)),
                     EngineTick(MirrorEngine(Engine),
                                ScriptInput(plan[1], 1), ScriptInput(plan[0], 0))} :
          /\ after.entities[0].health.current = 1000
          /\ after.entities[1].health.current = 950
    /\ ScriptInput(plan[0], 0) = ScriptInput(plan[1], 1)

----------------------------------------------------------------------------
(* C40: the within-state frame counter against the state's duration *)

\* The current state of entity p is registered and its counter is below its duration.
WithinDuration(p) ==
    LET sm == entities[p].state_machine
        i == FindState(sm, sm.current_state)
    IN i # 0 => sm.state_frame < sm.states[i].duration

\* C40 as stated: at the end of every tick, every entity whose current state is
\* registered has state_frame strictly less than that state's duration.
C40_FrameWithinDuration ==
    last_op = "tick" => \A p \in 0..(entity_count - 1) : WithinDuration(p)

\* C40: at the end of every tick, every entity whose current state is
\* registered and is not Idle has state_frame strictly less than that state's
\* duration. (Idle is left out: advance_frame answers its expiry with a
\* transition to Idle, which changes nothing, so its counter runs on.)
C40_ExceptIdle ==
    last_op = "tick" =>
        \A p \in 0..(entity_count - 1) :
            entities[p].state_machine.current_state # "Idle" => WithinDuration(p)

\* Reached: player 1 ends a tick on the last frame of its light attack (17 of
\* 18) and the next advance returns it to Idle at frame 0, while player 2 has
\* been Idle, a registered state of duration 1, for more than one frame.
C40_Witness ==
    /\ last_op = "tick"
    /\ entity_count = 2
    /\ entities[0].state_machine.current_state = "LightAttack"
    /\ entities[0].state_machine.state_frame = 17
    /\ AttackStateOf("LightAttack").duration = 18
    /\ AdvanceFrame(entities[0].state_machine).current_state = "Idle"
    /\ AdvanceFrame(entities[0].state_machine).state_frame = 0
    /\ entities[1].state_machine.current_state = "Idle"
    /\ FindState(entities[1].state_machine, "Idle") # 0
    /\ entities[1].state_machine.states[FindState(entities[1].state_machine, "Idle")]
           .duration = 1
    /\ entities[1].state_machine.state_frame > 1

====
